---- MODULE Spec2Model ----
(***************************************************************************)
(* Aircraft Carrier (naval combat game): the combat core, the AI decision  *)
(* engine and the turn state machine of the game controller.               *)
(*                                                                         *)
(* Specifications:                                                         *)
(*   SpecShip  ShipManager.damageShip / repairShip called on one ship      *)
(*   SpecAI    AIController.processAttackResult / takeTurn / reset called  *)
(*             against a player board that is being attacked               *)
(*   Spec      GameController: the event handlers and timer callbacks of   *)
(*             a game session, from construction                           *)
(***************************************************************************)
EXTENDS Integers, Sequences, FiniteSets, TLC

(* ------------------------------ bounds -------------------------------- *)
\* Width and height of the model's boards (DEFAULT_BOARD_SIZE is 15 x 15).
BoardSize == 3
\* damageShip / repairShip are called with amounts 0..MaxAmount.
MaxAmount == 6

(* --------------------------- ship configs ----------------------------- *)
\* SHIP_CONFIGS: every weapon is { damage: 1, pattern: Single }.
SHIP_CONFIGS(type) ==
    CASE type = "carrier"    -> [type |-> type, length |-> 5, maxHp |-> 5, range |-> 8, damage |-> 1, pattern |-> "Single"]
      [] type = "battleship" -> [type |-> type, length |-> 4, maxHp |-> 4, range |-> 6, damage |-> 1, pattern |-> "Single"]
      [] type = "destroyer"  -> [type |-> type, length |-> 3, maxHp |-> 3, range |-> 4, damage |-> 1, pattern |-> "Single"]
      [] type = "submarine"  -> [type |-> type, length |-> 2, maxHp |-> 2, range |-> 3, damage |-> 1, pattern |-> "Single"]

\* The four ship types, in the order createPlayerShips / createAIShips use.
shipTypes == <<"carrier", "battleship", "destroyer", "submarine">>

\* ShipFactory.createShip / createPlayerShips: { id, ...config, positions: [],
\* isVertical: true, hp: config.maxHp, isSunk: false }.
createShip(type, id) ==
    LET config == SHIP_CONFIGS(type) IN
    [id |-> id, type |-> type, length |-> config.length, maxHp |-> config.maxHp,
     range |-> config.range, damage |-> config.damage, pattern |-> config.pattern,
     positions |-> <<>>, isVertical |-> TRUE, hp |-> config.maxHp, isSunk |-> FALSE]

Max(a, b) == IF a >= b THEN a ELSE b
Min(a, b) == IF a <= b THEN a ELSE b
Abs(a) == IF a >= 0 THEN a ELSE -a

(* --------------------------- ShipManager ------------------------------ *)
\* A damageShip that forgets the floor at 0.
damageShipNoFloor(s, damage) ==
    LET hp == s.hp - damage IN
    [s EXCEPT !.hp = hp, !.isSunk = IF hp <= 0 /\ ~s.isSunk THEN TRUE ELSE s.isSunk]

\* ShipManager.damageShip
damageShip(s, damage) ==
    LET hp == Max(0, s.hp - damage) IN
    [s EXCEPT !.hp = hp, !.isSunk = IF hp <= 0 /\ ~s.isSunk THEN TRUE ELSE s.isSunk]

\* A repairShip that forgets the cap at maxHp.
repairShipNoCap(s, amount) ==
    LET hp == s.hp + amount IN
    [s EXCEPT !.hp = hp, !.isSunk = IF hp > 0 THEN FALSE ELSE s.isSunk]

\* ShipManager.repairShip
repairShip(s, amount) ==
    LET hp == Min(s.maxHp, s.hp + amount) IN
    [s EXCEPT !.hp = hp, !.isSunk = IF hp > 0 THEN FALSE ELSE s.isSunk]

(* ------------------------------- board -------------------------------- *)
Pos(x, y) == [x |-> x, y |-> y]

\* DEFAULT_BOARD_SIZE, at the model's size.
boardSize == [width |-> BoardSize, height |-> BoardSize]

BoardPositions == {Pos(x, y) : x \in 0..(boardSize.width - 1), y \in 0..(boardSize.height - 1)}

\* BoardManager.isValidPosition
isValidPosition(position) ==
    /\ position.x >= 0 /\ position.x < boardSize.width
    /\ position.y >= 0 /\ position.y < boardSize.height

\* A cell of createEmptyBoard: { state: 'water' } with no shipId, no powerUpType.
\* Ship ids are tuples <<owner, type, index>>; the empty tuple is "no ship".
NoShipId == <<>>
WaterCell == [state |-> "water", shipId |-> NoShipId, powerUpType |-> "none"]

\* GameStateManager.createEmptyBoard
createEmptyBoard ==
    [cells |-> [p \in BoardPositions |-> WaterCell], ships |-> <<>>, powerUps |-> <<>>]

\* board.ships.find(s => s.id === id): the index of the first such ship, 0 if none.
FindShip(board, id) ==
    IF \E i \in 1..Len(board.ships) : board.ships[i].id = id
    THEN CHOOSE i \in 1..Len(board.ships) :
            /\ board.ships[i].id = id
            /\ \A j \in 1..(i - 1) : board.ships[j].id # id
    ELSE 0

\* The positions a ship of this length covers from startPosition (placeShip,
\* calculateShipPositions).
calculateShipPositions(startPosition, length, isVertical) ==
    [i \in 1..length |->
        Pos(startPosition.x + (IF isVertical THEN 0 ELSE i - 1),
            startPosition.y + (IF isVertical THEN i - 1 ELSE 0))]

\* GameStateManager.isValidShipPlacement: "true", "false", or "throws" when the
\* collision loop reads board.cells[y][x] outside the grid before it has found
\* an occupied cell (only the ship's far end along its own axis is checked).
RECURSIVE collisionScan(_, _, _)
collisionScan(board, positions, i) ==
    IF i > Len(positions) THEN "true"
    ELSE IF ~isValidPosition(positions[i]) THEN "throws"
    ELSE IF board.cells[positions[i]].state # "water" THEN "false"
    ELSE collisionScan(board, positions, i + 1)

isValidShipPlacement(board, s, startPosition, isVertical) ==
    IF isVertical /\ startPosition.y + s.length > boardSize.height THEN "false"
    ELSE IF ~isVertical /\ startPosition.x + s.length > boardSize.width THEN "false"
    ELSE collisionScan(board, calculateShipPositions(startPosition, s.length, isVertical), 1)

\* GameStateManager.placeShip on board.ships[i], after a placement found valid:
\* the ship gets its positions, full hp and isSunk = false, and its cells
\* become 'ship' cells carrying its id.
placeShip(board, i, startPosition, isVertical) ==
    LET s == board.ships[i]
        positions == calculateShipPositions(startPosition, s.length, isVertical)
        covered == {positions[k] : k \in 1..Len(positions)}
    IN  [board EXCEPT
            !.ships[i] = [s EXCEPT !.positions = positions, !.isVertical = isVertical,
                                   !.hp = s.maxHp, !.isSunk = FALSE],
            !.cells = [p \in BoardPositions |->
                          IF p \in covered
                          THEN [board.cells[p] EXCEPT !.state = "ship", !.shipId = s.id]
                          ELSE board.cells[p]]]

\* ShipManager.rotateShip: a ship that is not placed turns its flag; a placed
\* ship gets new positions from its first one, along the row if it was
\* vertical and down the column if it was not. The board is not looked at.
rotateShip(s) ==
    IF Len(s.positions) = 0
    THEN [s EXCEPT !.isVertical = ~@]
    ELSE LET origin == s.positions[1]
         IN  [s EXCEPT !.positions = IF s.isVertical
                                     THEN [i \in 1..s.length |-> Pos(origin.x + (i - 1), origin.y)]
                                     ELSE [i \in 1..s.length |-> Pos(origin.x, origin.y + (i - 1))],
                       !.isVertical = ~@]

(* ------------------------------- combat ------------------------------- *)
\* BoardManager.getDistance and the distance of ShipManager.canShipAttack:
\* max(|dx|, |dy|).
getDistance(a, b) == Max(Abs(a.x - b.x), Abs(a.y - b.y))

\* A range check that measures from the ship's first position only.
canShipAttackFromOrigin(s, target) ==
    /\ ~s.isSunk
    /\ Len(s.positions) # 0
    /\ getDistance(s.positions[1], target) <= s.range

\* ShipManager.canShipAttack
canShipAttack(s, target) ==
    /\ ~s.isSunk
    /\ Len(s.positions) # 0
    /\ \E k \in 1..Len(s.positions) : getDistance(s.positions[k], target) <= s.range

\* GameController.markShipAsSunk
markShipAsSunk(board, s) ==
    [board EXCEPT !.cells =
        [p \in BoardPositions |->
            IF \E k \in 1..Len(s.positions) : s.positions[k] = p
            THEN [board.cells[p] EXCEPT !.state = "sunk"]
            ELSE board.cells[p]]]

\* WeaponSystem.getAttackTargets for the pattern every ship config carries.
getAttackTargets(s, origin, target) ==
    CASE s.pattern = "Single" -> <<target>>

\* The running state of the targets.forEach loops of executeAttack and
\* executeBombAttack.
StartLoop(board) == [board |-> board, totalHits |-> 0, sunk |-> FALSE, shipId |-> NoShipId]

\* An attack cell step that marks only the attacked cell when the ship sinks,
\* not the ship's other positions.
attackCellMarksOneCell(st, pos, damage) ==
    LET board == st.board
        cell == board.cells[pos]
        i == FindShip(board, cell.shipId)
    IN  IF cell.state = "ship" /\ cell.shipId # NoShipId /\ i # 0 /\ ~board.ships[i].isSunk
        THEN LET hitShip == damageShip(board.ships[i], damage)
             IN  [board |-> [board EXCEPT !.ships[i] = hitShip,
                                          !.cells[pos].state = IF hitShip.isSunk THEN "sunk" ELSE "hit"],
                  totalHits |-> st.totalHits + 1,
                  sunk |-> st.sunk \/ hitShip.isSunk,
                  shipId |-> hitShip.id]
        ELSE IF cell.state = "water"
             THEN [st EXCEPT !.board.cells[pos].state = "miss"]
             ELSE st

\* One iteration of the loop of executeAttack.
attackCell(st, pos, damage) ==
    LET board == st.board
        cell == board.cells[pos]
        i == FindShip(board, cell.shipId)
    IN  IF cell.state = "ship" /\ cell.shipId # NoShipId
        THEN IF i # 0 /\ ~board.ships[i].isSunk
             THEN LET hitShip == damageShip(board.ships[i], damage)
                      b1 == [board EXCEPT !.ships[i] = hitShip,
                                          !.cells[pos].state = IF hitShip.isSunk THEN "sunk" ELSE "hit"]
                  IN  [board |-> IF hitShip.isSunk THEN markShipAsSunk(b1, hitShip) ELSE b1,
                       totalHits |-> st.totalHits + 1,
                       sunk |-> st.sunk \/ hitShip.isSunk,
                       shipId |-> hitShip.id]
             ELSE st
        ELSE IF cell.state = "water"
             THEN [st EXCEPT !.board.cells[pos].state = "miss"]
             ELSE st

RECURSIVE attackLoop(_, _, _, _)
attackLoop(st, targets, k, damage) ==
    IF k > Len(targets) THEN st
    ELSE attackLoop(IF isValidPosition(targets[k]) THEN attackCell(st, targets[k], damage) ELSE st,
                    targets, k + 1, damage)

\* GameController.executeAttack(attackingShip, target, targetBoard): the board
\* after the attack and the result { hit, damage, sunk, shipId }.
executeAttack(board, attackingShip, target) ==
    IF Len(attackingShip.positions) = 0
    THEN [board |-> board, result |-> [hit |-> FALSE, damage |-> 0, sunk |-> FALSE, shipId |-> NoShipId]]
    ELSE LET st == attackLoop(StartLoop(board),
                              getAttackTargets(attackingShip, attackingShip.positions[1], target),
                              1, attackingShip.damage)
         IN  [board |-> st.board,
              result |-> [hit |-> st.totalHits > 0, damage |-> st.totalHits,
                          sunk |-> st.sunk, shipId |-> st.shipId]]

\* Damage of the mega bomb.
BombDamage == 5

\* A bomb that reaches the plus-shaped neighbourhood only: the target and its
\* four orthogonal neighbours.
bombTargetsPlus(target) ==
    SelectSeq(<<Pos(target.x - 1, target.y), Pos(target.x, target.y - 1), target,
                Pos(target.x, target.y + 1), Pos(target.x + 1, target.y)>>, isValidPosition)

\* The 3x3 block of executeBombAttack, clipped to the board, x outer, y inner.
bombTargets(target) ==
    LET all == [n \in 1..9 |-> Pos(target.x - 1 + ((n - 1) \div 3), target.y - 1 + ((n - 1) % 3))]
    IN  SelectSeq(all, isValidPosition)

\* A bomb cell step that subtracts the damage without the floor at 0 and
\* without sinking the ship.
bombCellNoFloor(st, pos) ==
    LET board == st.board
        cell == board.cells[pos]
        i == FindShip(board, cell.shipId)
    IN  IF cell.state = "ship" /\ cell.shipId # NoShipId /\ i # 0
        THEN [st EXCEPT !.board.ships[i].hp = @ - BombDamage,
                        !.board.cells[pos].state = "hit",
                        !.totalHits = @ + 1]
        ELSE st

\* One iteration of the loop of executeBombAttack.
bombCell(st, pos) ==
    LET board == st.board
        cell == board.cells[pos]
        i == FindShip(board, cell.shipId)
    IN  IF cell.state = "ship" /\ cell.shipId # NoShipId
        THEN IF i # 0 /\ ~board.ships[i].isSunk
             THEN LET hp == Max(0, board.ships[i].hp - BombDamage)
                      sinks == hp <= 0
                      hitShip == [board.ships[i] EXCEPT !.hp = hp, !.isSunk = sinks]
                      b1 == [board EXCEPT !.ships[i] = hitShip]
                  IN  [board |-> IF sinks THEN markShipAsSunk(b1, hitShip)
                                 ELSE [b1 EXCEPT !.cells[pos].state = "hit"],
                       totalHits |-> st.totalHits + 1,
                       sunk |-> st.sunk \/ sinks,
                       shipId |-> IF sinks /\ ~st.sunk THEN hitShip.id ELSE st.shipId]
             ELSE st
        ELSE IF cell.state = "water"
             THEN [st EXCEPT !.board.cells[pos].state = "miss"]
             ELSE st

RECURSIVE bombLoop(_, _, _)
bombLoop(st, targets, k) ==
    IF k > Len(targets) THEN st
    ELSE bombLoop(bombCell(st, targets[k]), targets, k + 1)

\* GameController.executeBombAttack(target, targetBoard)
executeBombAttack(board, target) ==
    LET st == bombLoop(StartLoop(board), bombTargets(target), 1)
    IN  [board |-> st.board,
         result |-> [hit |-> st.totalHits > 0, damage |-> st.totalHits * BombDamage,
                     sunk |-> st.sunk, shipId |-> st.shipId]]

\* A victory check that looks at the AI fleet first.
checkVictoryConditionAIFleetFirst(playerBoard, aiBoard) ==
    LET playerShipsAlive == \E i \in 1..Len(playerBoard.ships) : ~playerBoard.ships[i].isSunk
        aiShipsAlive == \E i \in 1..Len(aiBoard.ships) : ~aiBoard.ships[i].isSunk
    IN  IF ~aiShipsAlive THEN "player"
        ELSE IF ~playerShipsAlive THEN "ai"
        ELSE "null"

\* GameStateManager.checkVictoryCondition: the player's fleet is looked at first.
checkVictoryCondition(playerBoard, aiBoard) ==
    LET playerShipsAlive == \E i \in 1..Len(playerBoard.ships) : ~playerBoard.ships[i].isSunk
        aiShipsAlive == \E i \in 1..Len(aiBoard.ships) : ~aiBoard.ships[i].isSunk
    IN  IF ~playerShipsAlive THEN "ai"
        ELSE IF ~aiShipsAlive THEN "player"
        ELSE "null"

(* --------------------------- AIController ----------------------------- *)
\* A nullable value is a sequence of length at most one: <<>> is null.
Null == <<>>
Some(v) == <<v>>

\* new AIController(difficulty): hunt mode, empty target stack, no last hit, no
\* cached hunt target.
NewAI(difficulty) ==
    [targetMode |-> "hunt", targetStack |-> <<>>, lastHitPosition |-> Null,
     difficulty |-> difficulty, cachedHunt |-> Null]

Difficulties == {"easy", "medium", "hard"}

\* The board positions in the order of the loops `for x ... for y ...`.
ScanOrder ==
    [n \in 1..(boardSize.width * boardSize.height) |->
        Pos((n - 1) \div boardSize.height, (n - 1) % boardSize.height)]

\* AIController.canShipAttackPosition
canShipAttackPosition(s, target) ==
    /\ Len(s.positions) # 0
    /\ \E k \in 1..Len(s.positions) : getDistance(s.positions[k], target) <= s.range

\* An isValidTarget that does not skip cells already attacked and missed.
isValidTargetAllowsMiss(playerBoard, position, attackingShip) ==
    /\ isValidPosition(position)
    /\ playerBoard.cells[position].state \notin {"hit", "sunk"}
    /\ (attackingShip # Null => canShipAttackPosition(attackingShip[1], position))

\* AIController.isValidTarget (the later of the two definitions in the class,
\* the one in effect): attackingShip is Null or Some(ship).
isValidTarget(playerBoard, position, attackingShip) ==
    /\ isValidPosition(position)
    /\ playerBoard.cells[position].state \notin {"hit", "miss", "sunk"}
    /\ (attackingShip # Null => canShipAttackPosition(attackingShip[1], position))

\* AIController.canShipReach: straight-line distance from the ship's first
\* position, compared squared.
canShipReach(s, target) ==
    /\ Len(s.positions) # 0
    /\ LET dx == target.x - s.positions[1].x
           dy == target.y - s.positions[1].y
       IN  dx * dx + dy * dy <= s.range * s.range

\* AIController.getValidTargetsInRange
getValidTargetsInRange(playerBoard, availableShip) ==
    LET ok(p) == /\ isValidTarget(playerBoard, p, availableShip)
                 /\ (availableShip = Null \/ canShipReach(availableShip[1], p))
    IN  SelectSeq(ScanOrder, ok)

\* AIController.findBestAttackingShip (the later definition, the one in
\* effect): the first AI ship that is placed and not sunk, as an index, 0 if none.
findBestAttackingShip(aiBoard) ==
    LET avail(i) == ~aiBoard.ships[i].isSunk /\ Len(aiBoard.ships[i].positions) > 0
    IN  IF \E i \in 1..Len(aiBoard.ships) : avail(i)
        THEN CHOOSE i \in 1..Len(aiBoard.ships) : avail(i) /\ \A j \in 1..(i - 1) : ~avail(j)
        ELSE 0

\* Number of in-board cells in the given state within Chebyshev radius of (x, y)
\* (countNearbyHits: 'hit', radius 2; countNearbyMisses: 'miss', radius 1).
countNearby(playerBoard, p, state, radius) ==
    Cardinality({q \in BoardPositions :
        getDistance(p, q) <= radius /\ playerBoard.cells[q].state = state})

countNearbyHits(playerBoard, p) == countNearby(playerBoard, p, "hit", 2)
countNearbyMisses(playerBoard, p) == countNearby(playerBoard, p, "miss", 1)

\* The four orthogonal neighbours of a position that lie on the board.
OrthogonalOnBoard(p) ==
    {q \in BoardPositions : Abs(p.x - q.x) + Abs(p.y - q.y) = 1}

\* Scores are kept in tenths (the code adds 0.5, 0.3 and 0.1 steps).
\* AIController.calculatePatternProbability: +0.5 on an edge, -0.3 in a corner.
calculatePatternProbability(p) ==
    LET edgeX == p.x = 0 \/ p.x = boardSize.width - 1
        edgeY == p.y = 0 \/ p.y = boardSize.height - 1
    IN  (IF edgeX \/ edgeY THEN 5 ELSE 0) - (IF edgeX /\ edgeY THEN 3 ELSE 0)

\* AIController.calculateProbableShipLocations for one water cell, in tenths:
\* max(0, 1 + 3 * nearbyHits - 0.5 * nearbyMisses [+ pattern when hard]).
probability(playerBoard, p, difficulty) ==
    Max(0, 10 + 30 * countNearbyHits(playerBoard, p) - 5 * countNearbyMisses(playerBoard, p)
           + (IF difficulty = "hard" THEN calculatePatternProbability(p) ELSE 0))

\* findHitClusters keeps the connected groups of 'hit' cells with more than one
\* cell: a hit cell is in one exactly when an orthogonal neighbour is 'hit' too.
inHitCluster(playerBoard, q) ==
    /\ playerBoard.cells[q].state = "hit"
    /\ \E r \in OrthogonalOnBoard(q) : playerBoard.cells[r].state = "hit"

\* analysis.targetPriority.get(key) || 1, in tenths: the probability of a water
\* cell plus 5 for every clustered hit next to it; an absent or zero entry
\* reads as 1.
targetPriority(playerBoard, p, difficulty) ==
    LET v == IF playerBoard.cells[p].state = "water"
             THEN probability(playerBoard, p, difficulty)
                  + 50 * Cardinality({q \in OrthogonalOnBoard(p) : inHitCluster(playerBoard, q)})
             ELSE 0
    IN  IF v = 0 THEN 10 ELSE v

\* The inner loop of calculateShipCompletionScore: consecutive water cells
\* from the target in one direction, at steps i .. shipLength - 1.
RECURSIVE waterRun(_, _, _, _, _, _)
waterRun(playerBoard, target, dx, dy, i, shipLength) ==
    IF i >= shipLength THEN 0
    ELSE LET p == Pos(target.x + dx * i, target.y + dy * i)
         IN  IF isValidPosition(p) /\ playerBoard.cells[p].state = "water"
             THEN 1 + waterRun(playerBoard, target, dx, dy, i + 1, shipLength)
             ELSE 0

\* AIController.calculateShipCompletionScore, in tenths: 0.5 for each of the
\* four axes along which a ship of this length could still lie through target.
calculateShipCompletionScore(playerBoard, target, shipLength) ==
    LET axes == <<Pos(1, 0), Pos(0, 1), Pos(1, 1), Pos(1, -1)>>
        validLength(d) == waterRun(playerBoard, target, -d.x, -d.y, 1, shipLength)
                          + waterRun(playerBoard, target, d.x, d.y, 1, shipLength)
        one(k) == IF validLength(axes[k]) >= shipLength - 1 THEN 5 ELSE 0
    IN  one(1) + one(2) + one(3) + one(4)

\* AIController.countFollowUpOptions
countFollowUpOptions(playerBoard, target) ==
    Cardinality({q \in OrthogonalOnBoard(target) : playerBoard.cells[q].state = "water"})

\* AIController.calculateAdvancedTargetScore, in tenths.
calculateAdvancedTargetScore(playerBoard, target) ==
    calculateShipCompletionScore(playerBoard, target, 2)
    + calculateShipCompletionScore(playerBoard, target, 3)
    + calculateShipCompletionScore(playerBoard, target, 4)
    + calculateShipCompletionScore(playerBoard, target, 5)
    + countFollowUpOptions(playerBoard, target)

\* AIController.easyHuntStrategy: a uniformly drawn valid target, or the one
\* preferCenterTargets picks among them; every valid target can come out.
easyHuntStrategy(playerBoard, availableShip) ==
    LET validTargets == getValidTargetsInRange(playerBoard, availableShip)
    IN  {validTargets[k] : k \in 1..Len(validTargets)}

\* AIController.mediumHuntStrategy: the first valid target of highest priority.
mediumHuntStrategy(playerBoard, availableShip, difficulty) ==
    LET validTargets == getValidTargetsInRange(playerBoard, availableShip)
        priority(k) == targetPriority(playerBoard, validTargets[k], difficulty)
    IN  {validTargets[k] : k \in {i \in 1..Len(validTargets) :
            /\ \A j \in 1..Len(validTargets) : priority(j) <= priority(i)
            /\ \A j \in 1..(i - 1) : priority(j) < priority(i)}}

\* How many of the best-scored targets hardHuntStrategy draws from.
TopTargets == 3

\* AIController.hardHuntStrategy: one of the first three valid targets in
\* descending (stable) score order.
hardHuntStrategy(playerBoard, availableShip, difficulty) ==
    LET validTargets == getValidTargetsInRange(playerBoard, availableShip)
        score(k) == targetPriority(playerBoard, validTargets[k], difficulty)
                    + calculateAdvancedTargetScore(playerBoard, validTargets[k])
        before(i) == {j \in 1..Len(validTargets) :
                        score(j) > score(i) \/ (score(j) = score(i) /\ j < i)}
    IN  {validTargets[k] : k \in {i \in 1..Len(validTargets) : Cardinality(before(i)) < TopTargets}}

\* The targets the hunt strategy of this difficulty can return (empty: null).
huntStrategy(playerBoard, availableShip, difficulty) ==
    CASE difficulty = "easy"   -> easyHuntStrategy(playerBoard, availableShip)
      [] difficulty = "medium" -> mediumHuntStrategy(playerBoard, availableShip, difficulty)
      [] difficulty = "hard"   -> hardHuntStrategy(playerBoard, availableShip, difficulty)

\* AIController.smartHuntModeAttack: the cached hunt target when the cache is
\* younger than a second (cacheFresh) and the target is still valid; otherwise
\* the strategy's pick, which is then cached.  A set of outcomes
\* [ai, target, source].
smartHuntModeAttack(a, playerBoard, availableShip, cacheFresh) ==
    IF cacheFresh /\ a.cachedHunt # Null /\ isValidTarget(playerBoard, a.cachedHunt[1], Null)
    THEN {[ai |-> a, target |-> a.cachedHunt, source |-> "cache"]}
    ELSE LET picks == huntStrategy(playerBoard, availableShip, a.difficulty)
         IN  IF picks = {}
             THEN {[ai |-> a, target |-> Null, source |-> "hunt"]}
             ELSE {[ai |-> [a EXCEPT !.cachedHunt = Some(t)], target |-> Some(t), source |-> "hunt"] :
                      t \in picks}

\* AIController.advancedTargetModeAttack: pop until a still-valid target comes
\* off the stack; with the stack run empty, hunt instead.
RECURSIVE advancedTargetModeAttack(_, _, _, _)
advancedTargetModeAttack(a, playerBoard, availableShip, cacheFresh) ==
    IF Len(a.targetStack) = 0
    THEN smartHuntModeAttack(a, playerBoard, availableShip, cacheFresh)
    ELSE LET target == a.targetStack[Len(a.targetStack)]
             popped == [a EXCEPT !.targetStack = SubSeq(a.targetStack, 1, Len(a.targetStack) - 1)]
         IN  IF ~isValidTarget(playerBoard, target, Null)
             THEN advancedTargetModeAttack(popped, playerBoard, availableShip, cacheFresh)
             ELSE {[ai |-> popped, target |-> Some(target), source |-> "stack"]}

\* AIController.applyDifficultyModifier: the target itself, or, when the
\* accuracy roll fails and some cell is still open, any open cell of the board.
applyDifficultyModifier(o, playerBoard) ==
    IF o.target = Null THEN {o}
    ELSE LET validTargets == getValidTargetsInRange(playerBoard, Null)
         IN  {o} \cup {[o EXCEPT !.target = Some(validTargets[k]), !.source = "missRoll"] :
                          k \in 1..Len(validTargets)}

\* Math.random() to two decimals: k stands for a draw in [k/100, (k+1)/100).
RollGrid == 0..99

\* The accuracy of applyDifficultyModifier's switch, in hundredths.
accuracyPercent(difficulty) ==
    CASE difficulty = "easy"   -> 70
      [] difficulty = "medium" -> 85
      [] difficulty = "hard"   -> 95
      [] OTHER                 -> 100

\* A modifier that replaces the target when the draw is below the accuracy.
applyDifficultyModifierInverted(o, playerBoard, random) ==
    IF o.target = Null THEN {o}
    ELSE LET validTargets == getValidTargetsInRange(playerBoard, Null)
         IN  IF random < accuracyPercent(o.ai.difficulty) /\ Len(validTargets) > 0
             THEN {[o EXCEPT !.target = Some(validTargets[k]), !.source = "missRoll"] :
                      k \in 1..Len(validTargets)}
             ELSE {o}

\* AIController.applyDifficultyModifier with the draw of Math.random() given:
\* Math.random() > accuracy holds for the draws of the cells from the
\* accuracy on, and then any of the valid targets is returned.
applyDifficultyModifierDrawn(o, playerBoard, random) ==
    IF o.target = Null THEN {o}
    ELSE LET validTargets == getValidTargetsInRange(playerBoard, Null)
         IN  IF random >= accuracyPercent(o.ai.difficulty) /\ Len(validTargets) > 0
             THEN {[o EXCEPT !.target = Some(validTargets[k]), !.source = "missRoll"] :
                      k \in 1..Len(validTargets)}
             ELSE {o}

\* AIController.takeTurn(gameState): the set of outcomes [ai, target, source];
\* target is Null or Some(position). cacheAges says whether the cached hunt
\* pick can be younger than a second, older, or either.
takeTurnAged(a, aiBoard, playerBoard, cacheAges) ==
    LET i == findBestAttackingShip(aiBoard) IN
    IF i = 0 THEN {[ai |-> a, target |-> Null, source |-> "noShip"]}
    ELSE LET availableShip == Some(aiBoard.ships[i])
             first == UNION {IF a.targetMode = "target" /\ Len(a.targetStack) > 0
                             THEN advancedTargetModeAttack(a, playerBoard, availableShip, cacheFresh)
                             ELSE smartHuntModeAttack(a, playerBoard, availableShip, cacheFresh) :
                             cacheFresh \in cacheAges}
         IN  UNION {applyDifficultyModifier(o, playerBoard) : o \in first}

\* takeTurn called at any time.
takeTurn(a, aiBoard, playerBoard) == takeTurnAged(a, aiBoard, playerBoard, BOOLEAN)

\* An addAdjacentTargets that pushes the neighbours without looking at the
\* stack.
RECURSIVE pushDirectionsAlways(_, _, _, _)
pushDirectionsAlways(stack, position, directions, k) ==
    IF k > Len(directions) THEN stack
    ELSE pushDirectionsAlways(
             Append(stack, Pos(position.x + directions[k].x, position.y + directions[k].y)),
             position, directions, k + 1)

\* AIController.addAdjacentTargets: the four neighbours, left, right, up, down,
\* each pushed unless already on the stack.
RECURSIVE pushDirections(_, _, _, _)
pushDirections(stack, position, directions, k) ==
    IF k > Len(directions) THEN stack
    ELSE LET newPos == Pos(position.x + directions[k].x, position.y + directions[k].y)
         IN  pushDirections(IF \E n \in 1..Len(stack) : stack[n] = newPos
                            THEN stack ELSE Append(stack, newPos),
                            position, directions, k + 1)

addAdjacentTargets(a, position) ==
    [a EXCEPT !.targetStack =
        pushDirections(a.targetStack, position, <<Pos(-1, 0), Pos(1, 0), Pos(0, -1), Pos(0, 1)>>, 1)]

\* A processAttackResult that looks at sunk before it looks at hit.
processAttackResultSunkFirst(a, position, hit, sunk) ==
    IF sunk
    THEN [a EXCEPT !.targetMode = "hunt", !.targetStack = <<>>, !.lastHitPosition = Null]
    ELSE IF hit
         THEN addAdjacentTargets([a EXCEPT !.lastHitPosition = Some(position), !.targetMode = "target"],
                                 position)
         ELSE a

\* A processAttackResult whose sunk branch forgets to clear lastHitPosition.
processAttackResultKeepsLastHit(a, position, hit, sunk) ==
    IF hit
    THEN IF sunk
         THEN [a EXCEPT !.targetMode = "hunt", !.targetStack = <<>>, !.lastHitPosition = Some(position)]
         ELSE addAdjacentTargets([a EXCEPT !.lastHitPosition = Some(position), !.targetMode = "target"],
                                 position)
    ELSE a

\* AIController.processAttackResult(position, hit, sunk)
processAttackResult(a, position, hit, sunk) ==
    IF hit
    THEN IF sunk
         THEN [a EXCEPT !.targetMode = "hunt", !.targetStack = <<>>, !.lastHitPosition = Null]
         ELSE addAdjacentTargets([a EXCEPT !.lastHitPosition = Some(position), !.targetMode = "target"],
                                 position)
    ELSE a

\* AIController.reset (the later definition, the one in effect): the cached
\* hunt target is kept.
reset(a) ==
    [a EXCEPT !.targetMode = "hunt", !.targetStack = <<>>, !.lastHitPosition = Null]

(* ------------------------------- fleets ------------------------------- *)
\* The ship types of the fleets: those of shipTypes that fit on the model's
\* board, each keeping its index in shipTypes.
FleetIndices == {i \in 1..Len(shipTypes) : SHIP_CONFIGS(shipTypes[i]).length <= BoardSize}

IndexSeq == [i \in 1..Len(shipTypes) |-> i]

\* GameStateManager.createPlayerShips / createAIShips: ids are
\* `${owner}-${type}-${index}`, written here as <<owner, type, index>>.
createShips(owner) ==
    LET kept == SelectSeq(IndexSeq, LAMBDA i : i \in FleetIndices)
    IN  [k \in 1..Len(kept) |-> createShip(shipTypes[kept[k]], <<owner, shipTypes[kept[k]], kept[k] - 1>>)]

\* How many of the placements that autoPlaceShips can draw for one ship the
\* model follows.
MaxPlacementChoices == 1

\* The draws of one round of the autoPlaceShips loop that place the ship:
\* isVertical, x = floor(random * maxX), y = floor(random * maxY).
autoPlaceDraws(board, i) ==
    LET s == board.ships[i]
        maxX(v) == IF v THEN boardSize.width ELSE boardSize.width - s.length
        maxY(v) == IF v THEN boardSize.height - s.length ELSE boardSize.height
        draws == [n \in 1..(2 * Len(ScanOrder)) |->
                    [isVertical |-> n <= Len(ScanOrder),
                     start |-> ScanOrder[((n - 1) % Len(ScanOrder)) + 1]]]
        ok(d) == /\ d.start.x <= Max(maxX(d.isVertical) - 1, 0)
                 /\ d.start.y <= Max(maxY(d.isVertical) - 1, 0)
                 /\ isValidShipPlacement(board, s, d.start, d.isVertical) = "true"
    IN  SelectSeq(draws, ok)

\* GameStateManager.autoPlaceShips(board, board.ships) from ship i on: the
\* boards it can leave.  A ship with no placing draw stays unplaced.
RECURSIVE autoPlaceShips(_, _)
autoPlaceShips(board, i) ==
    IF i > Len(board.ships) THEN {board}
    ELSE LET draws == autoPlaceDraws(board, i)
             n == Min(Len(draws), MaxPlacementChoices)
         IN  IF n = 0 THEN autoPlaceShips(board, i + 1)
             ELSE UNION {autoPlaceShips(placeShip(board, i, draws[k].start, draws[k].isVertical), i + 1) :
                            k \in 1..n}

\* A board with its owner's fleet created on it and not yet placed.
boardWithShips(owner) == [createEmptyBoard EXCEPT !.ships = createShips(owner)]

\* GameStateManager.createInitialState
powerUpTypes == <<"repair", "radar", "extra-turn", "bomb">>

PowerUpTypeSet == {powerUpTypes[i] : i \in 1..Len(powerUpTypes)}

NoInventory == [t \in PowerUpTypeSet |-> 0]

createInitialState ==
    [phase |-> "setup", playerBoard |-> createEmptyBoard, aiBoard |-> createEmptyBoard,
     winner |-> "null", extraTurn |-> 0,
     powerUpInventory |-> [player |-> NoInventory, ai |-> NoInventory]]

(* --------------------------- PowerUpManager --------------------------- *)
\* The cells `for y ... for x ...` finds in state 'water' (spawnRandomPowerUp of
\* the controller).
emptyCells(board) ==
    LET rows == [n \in 1..(boardSize.width * boardSize.height) |->
                    Pos((n - 1) % boardSize.width, (n - 1) \div boardSize.width)]
    IN  SelectSeq(rows, LAMBDA p : board.cells[p].state = "water")

\* PowerUpManager.spawnPowerUpAtPosition with the type
\* PowerUpFactory.spawnRandomPowerUp has drawn.
spawnPowerUpAtPosition(board, position, type) ==
    IF board.cells[position].state = "water"
    THEN [board EXCEPT !.powerUps = Append(@, [type |-> type, position |-> position]),
                       !.cells[position].state = "power-up",
                       !.cells[position].powerUpType = type]
    ELSE board

\* The index of the first power-up lying at position, 0 if none (findIndex).
powerUpIndexAt(board, position) ==
    IF \E i \in 1..Len(board.powerUps) : board.powerUps[i].position = position
    THEN CHOOSE i \in 1..Len(board.powerUps) :
            /\ board.powerUps[i].position = position
            /\ \A j \in 1..(i - 1) : board.powerUps[j].position # position
    ELSE 0

\* A collectPowerUp that takes the power-up off the list and into the
\* inventory but leaves the cell as it is.
collectPowerUpKeepsCell(g, player, position) ==
    LET board == IF player = "player" THEN g.playerBoard ELSE g.aiBoard
        i == powerUpIndexAt(board, position)
    IN  IF i = 0 THEN [gs |-> g, ok |-> FALSE]
        ELSE LET type == board.powerUps[i].type
                 b1 == [board EXCEPT
                          !.powerUps = [k \in 1..(Len(@) - 1) |-> IF k < i THEN @[k] ELSE @[k + 1]]]
                 g1 == [g EXCEPT !.powerUpInventory[player][type] = @ + 1]
             IN  [gs |-> IF player = "player" THEN [g1 EXCEPT !.playerBoard = b1]
                                               ELSE [g1 EXCEPT !.aiBoard = b1],
                  ok |-> TRUE]

\* PowerUpManager.collectPowerUp(gameState, player, position): the new game
\* state and the returned flag.
collectPowerUp(g, player, position) ==
    LET board == IF player = "player" THEN g.playerBoard ELSE g.aiBoard
        i == powerUpIndexAt(board, position)
    IN  IF i = 0 THEN [gs |-> g, ok |-> FALSE]
        ELSE LET type == board.powerUps[i].type
                 b1 == [board EXCEPT
                          !.powerUps = [k \in 1..(Len(@) - 1) |-> IF k < i THEN @[k] ELSE @[k + 1]],
                          !.cells[position].state = "water",
                          !.cells[position].powerUpType = "none"]
                 g1 == [g EXCEPT !.powerUpInventory[player][type] = @ + 1]
             IN  [gs |-> IF player = "player" THEN [g1 EXCEPT !.playerBoard = b1]
                                               ELSE [g1 EXCEPT !.aiBoard = b1],
                  ok |-> TRUE]

\* A usePowerUp that does not look at the count.
usePowerUpUnchecked(g, player, type) ==
    [gs |-> [g EXCEPT !.powerUpInventory[player][type] = @ - 1], ok |-> TRUE]

\* PowerUpManager.usePowerUp(gameState, player, type); the effects' apply
\* functions change nothing the game logic reads.
usePowerUp(g, player, type) ==
    IF g.powerUpInventory[player][type] <= 0
    THEN [gs |-> g, ok |-> FALSE]
    ELSE [gs |-> [g EXCEPT !.powerUpInventory[player][type] = @ - 1], ok |-> TRUE]

\* GameStateManager.usePowerUp(player, type)
stateUsePowerUp(g, player, type) ==
    IF g.powerUpInventory[player][type] > 0
    THEN [gs |-> [g EXCEPT !.powerUpInventory[player][type] = @ - 1], ok |-> TRUE]
    ELSE [gs |-> g, ok |-> FALSE]

\* The hit points PowerUpManager.repairShip restores.
RepairAmount == 2

\* A repair that does not look at isSunk.
powerUpRepairShipAnyShip(board, shipId) ==
    LET i == FindShip(board, shipId)
    IN  IF i = 0
        THEN [board |-> board, ok |-> FALSE]
        ELSE [board |-> [board EXCEPT !.ships[i].hp = Min(board.ships[i].maxHp, @ + RepairAmount)],
              ok |-> TRUE]

\* PowerUpManager.repairShip(gameState, player, shipId) on the board of player.
powerUpRepairShip(board, shipId) ==
    LET i == FindShip(board, shipId)
    IN  IF i = 0 \/ board.ships[i].isSunk
        THEN [board |-> board, ok |-> FALSE]
        ELSE [board |-> [board EXCEPT !.ships[i].hp = Min(board.ships[i].maxHp, @ + RepairAmount)],
              ok |-> TRUE]

(* ------------------------- AchievementManager ------------------------- *)
\* The counters loadStats starts with, and the two more the game increments.
statNames ==
    {"gamesPlayed", "gamesWon", "totalHits", "powerUpsUsed", "perfectGames",
     "carrierOnlyWins", "fastestWin", "longestGame", "gamesStarted", "powerUpsCollected"}

\* The ids of getAchievementDefinitions, in its order.
achievementIds ==
    <<"first-game", "first-win", "five-wins", "ten-wins", "perfect-game",
      "power-up-master", "hundred-hits", "carrier-ace", "speed-demon", "endurance">>

\* achievement.condition() of the achievement with this id.
condition(id, stats) ==
    CASE id = "first-game"      -> stats["gamesPlayed"] >= 1
      [] id = "first-win"       -> stats["gamesWon"] >= 1
      [] id = "five-wins"       -> stats["gamesWon"] >= 5
      [] id = "ten-wins"        -> stats["gamesWon"] >= 10
      [] id = "perfect-game"    -> stats["perfectGames"] >= 1
      [] id = "power-up-master" -> stats["powerUpsUsed"] >= 25
      [] id = "hundred-hits"    -> stats["totalHits"] >= 100
      [] id = "carrier-ace"     -> stats["carrierOnlyWins"] >= 1
      [] id = "speed-demon"     -> stats["fastestWin"] <= 20 /\ stats["fastestWin"] > 0
      [] id = "endurance"       -> stats["longestGame"] >= 50

\* The AchievementManager a browser without saved stats constructs: a counter
\* that is not there reads as 0 wherever the code reads it.
NewAchievementManager ==
    [stats |-> [n \in statNames |-> 0], unlockedAchievements |-> <<>>]

\* A checkAchievements that does not look at the unlocked list.
checkAchievementsAgain(m) ==
    [m EXCEPT !.unlockedAchievements =
        @ \o SelectSeq(achievementIds, LAMBDA id : condition(id, m.stats))]

\* AchievementManager.checkAchievements with unlockAchievement: every
\* achievement not yet in the list whose condition holds is pushed, in the
\* order of the definitions.
checkAchievements(m) ==
    [m EXCEPT !.unlockedAchievements =
        @ \o SelectSeq(achievementIds,
                       LAMBDA id : /\ \A i \in 1..Len(m.unlockedAchievements) :
                                         m.unlockedAchievements[i] # id
                                   /\ condition(id, m.stats))]

\* AchievementManager.incrementStat(statName, amount)
incrementStat(m, statName, amount) ==
    checkAchievements([m EXCEPT !.stats[statName] = @ + amount])

\* AchievementManager.setStat(statName, value)
setStat(m, statName, value) ==
    checkAchievements([m EXCEPT !.stats[statName] = value])

(* ----------------------------- variables ------------------------------ *)
VARIABLES
    ship,       \* SpecShip: the ship the ShipManager calls act on
    gs,         \* GameStateManager.gameState
    ai,         \* the AIController
    ctl,        \* GameController / ControlManager flags
    timers,     \* callbacks scheduled with safeSetTimeout and not yet run
    calls,      \* SpecAI: how many calls the harness has made
    ach,        \* the AchievementManager
    lastOp      \* the last operation that acted, with its arguments and result

vars == <<ship, gs, ai, ctl, timers, calls, ach, lastOp>>

NoOp == [op |-> "none"]

\* GameController's own fields after construction, with ControlManager.isEnabled
\* and the PlacementManager's currentShipIndex and isVertical.
NewControl ==
    [selectedPowerUp |-> "null", repairMode |-> FALSE, radarMode |-> FALSE,
     bombMode |-> FALSE, isEnabled |-> TRUE, placementModal |-> FALSE,
     currentShipIndex |-> 0, isVertical |-> TRUE]

NoTimers == [executeAITurn |-> 0, endOfAITurn |-> 0]

(* ------------------------------ SpecShip ------------------------------ *)
InitShip ==
    /\ ship \in {createShip(shipTypes[i], <<"test">>) : i \in 1..Len(shipTypes)}
    /\ gs = createInitialState
    /\ ai = NewAI("medium")
    /\ ctl = NewControl
    /\ timers = NoTimers
    /\ calls = 0
    /\ ach = NewAchievementManager
    /\ lastOp = NoOp

\* ShipManager.damageShip(ship, amount)
DamageShipCall ==
    \E amount \in 0..MaxAmount :
        /\ ship' = damageShip(ship, amount)
        /\ lastOp' = [op |-> "damageShip", amount |-> amount, before |-> ship]
        /\ UNCHANGED <<gs, ai, ctl, timers, calls, ach>>

\* ShipManager.repairShip(ship, amount)
RepairShipCall ==
    \E amount \in 0..MaxAmount :
        /\ ship' = repairShip(ship, amount)
        /\ lastOp' = [op |-> "repairShip", amount |-> amount, before |-> ship]
        /\ UNCHANGED <<gs, ai, ctl, timers, calls, ach>>

NextShip == DamageShipCall \/ RepairShipCall

SpecShip == InitShip /\ [][NextShip]_vars

(* ------------------------- claims on SpecShip ------------------------- *)
\* C6: damageShip(ship, amount) with amount >= 0 never increases hp and never
\* takes hp below 0; a ship that was not sunk is sunk after the call exactly
\* when the call brought its hp to 0, and a sunk ship stays sunk under any
\* further damageShip call.
C6_DamageMonotone ==
    lastOp.op = "damageShip" =>
        /\ ship.hp <= lastOp.before.hp
        /\ ship.hp >= 0
        /\ (lastOp.before.isSunk => ship.isSunk)
        /\ (~lastOp.before.isSunk => (ship.isSunk <=> ship.hp = 0))

\* C6 witness: a call whose amount exceeds the remaining hp of a ship that was
\* afloat: hp stops at 0 and the ship is sunk by this call.
C6_Witness ==
    /\ lastOp.op = "damageShip"
    /\ ~lastOp.before.isSunk
    /\ lastOp.amount > lastOp.before.hp
    /\ ship.hp = 0
    /\ ship.isSunk

\* C7: repairShip(ship, amount) sets hp to min(maxHp, hp + amount), so hp never
\* exceeds maxHp, and isSunk is false whenever the resulting hp is above 0.
C7_RepairBounds ==
    lastOp.op = "repairShip" =>
        /\ ship.hp = Min(lastOp.before.maxHp, lastOp.before.hp + lastOp.amount)
        /\ ship.hp <= ship.maxHp
        /\ (ship.hp > 0 => ~ship.isSunk)

\* C7 witness: a sunk ship repaired by more than its maxHp: it is revived with
\* hp = maxHp.
C7_Witness ==
    /\ lastOp.op = "repairShip"
    /\ lastOp.before.isSunk
    /\ lastOp.before.hp + lastOp.amount > lastOp.before.maxHp
    /\ ship.hp = ship.maxHp
    /\ ~ship.isSunk

(* ------------------------------ SpecRange ----------------------------- *)
\* The largest coordinate of the targets canShipAttack is asked about: past
\* the longest range from the far end of the longest ship.
MaxProbe == 13

ProbeTargets == {Pos(x, y) : x \in 0..MaxProbe, y \in 0..MaxProbe}

\* Where the ship under test is put.
RangeStarts == {Pos(0, 0), Pos(1, 2)}

\* A ship is given its positions, as the ship tests do.
PositionShipCall ==
    \E start \in RangeStarts, isVertical \in BOOLEAN :
        /\ Len(ship.positions) = 0
        /\ ship' = [ship EXCEPT !.positions = calculateShipPositions(start, ship.length, isVertical),
                                !.isVertical = isVertical]
        /\ lastOp' = [op |-> "positions", target |-> start, result |-> FALSE]
        /\ UNCHANGED <<gs, ai, ctl, timers, calls, ach>>

\* ShipManager.damageShip(ship, amount) on the ship under test.
DamageBeforeRangeCall ==
    \E amount \in 1..MaxAmount :
        /\ ship' = damageShip(ship, amount)
        /\ lastOp' = [op |-> "damageShip", target |-> Pos(0, 0), result |-> FALSE]
        /\ UNCHANGED <<gs, ai, ctl, timers, calls, ach>>

\* ShipManager.canShipAttack(ship, target)
CanShipAttackCall ==
    \E target \in ProbeTargets :
        /\ lastOp' = [op |-> "canShipAttack", target |-> target,
                      result |-> canShipAttack(ship, target)]
        /\ UNCHANGED <<ship, gs, ai, ctl, timers, calls, ach>>

NextRange ==
    \/ PositionShipCall
    \/ DamageBeforeRangeCall
    \/ CanShipAttackCall

SpecRange == InitShip /\ [][NextRange]_vars

\* C20: canShipAttack(ship, target) is true if and only if the ship is not
\* sunk, has at least one position, and max(|dx|, |dy|) from the target to at
\* least one of the ship's positions is at most the weapon's range.
C20_CanShipAttack ==
    lastOp.op = "canShipAttack" =>
        (lastOp.result <=>
            /\ ~ship.isSunk
            /\ Len(ship.positions) >= 1
            /\ \E k \in 1..Len(ship.positions) :
                  /\ Abs(lastOp.target.x - ship.positions[k].x) <= ship.range
                  /\ Abs(lastOp.target.y - ship.positions[k].y) <= ship.range)

\* C20 witness: a target the ship can attack that is out of range of the
\* ship's first position and in range of another, diagonally off the ship.
C20_Witness ==
    /\ lastOp.op = "canShipAttack"
    /\ lastOp.result
    /\ Len(ship.positions) > 1
    /\ getDistance(ship.positions[1], lastOp.target) > ship.range
    /\ \E k \in 2..Len(ship.positions) :
          /\ getDistance(ship.positions[k], lastOp.target) = ship.range
          /\ lastOp.target.x # ship.positions[k].x
          /\ lastOp.target.y # ship.positions[k].y

(* ---------------------------- WeaponSystem ---------------------------- *)
\* The side of the board the attack patterns are resolved on.
WeaponBoardSize == 5

weaponBoardSize == [width |-> WeaponBoardSize, height |-> WeaponBoardSize]

WeaponCells == {Pos(x, y) : x \in 0..(WeaponBoardSize - 1), y \in 0..(WeaponBoardSize - 1)}

\* AttackPatterns.isValidPosition(position, boardSize)
AttackPatterns_isValidPosition(position, size) ==
    /\ position.x >= 0
    /\ position.x < size.width
    /\ position.y >= 0
    /\ position.y < size.height

\* The candidates a pattern walks through, keeping those it pushes.
pushValid(candidates, size) ==
    SelectSeq(candidates, LAMBDA p : AttackPatterns_isValidPosition(p, size))

\* A plus pattern that pushes the four neighbours without the bounds check.
plusGetTargetsUnclipped(origin, target, size) ==
    <<target, Pos(target.x, target.y - 1), Pos(target.x, target.y + 1),
      Pos(target.x - 1, target.y), Pos(target.x + 1, target.y)>>

\* AttackPatterns.plus.getTargets: the target, then the neighbours in the
\* directions (0,-1), (0,1), (-1,0), (1,0) that are on the board.
plusGetTargets(origin, target, size) ==
    <<target>> \o
    pushValid(<<Pos(target.x, target.y - 1), Pos(target.x, target.y + 1),
                Pos(target.x - 1, target.y), Pos(target.x + 1, target.y)>>, size)

\* A line pattern that always walks towards larger coordinates.
lineGetTargetsForward(origin, target, size) ==
    LET dx == target.x - origin.x
        dy == target.y - origin.y
    IN  pushValid([i \in 1..3 |->
                     IF Abs(dx) > Abs(dy)
                     THEN Pos(target.x + (i - 1), target.y)
                     ELSE Pos(target.x, target.y + (i - 1))], size)

\* AttackPatterns.line.getTargets
lineGetTargets(origin, target, size) ==
    LET dx == target.x - origin.x
        dy == target.y - origin.y
        horizontal == Abs(dx) > Abs(dy)
        direction == IF horizontal
                     THEN (IF dx > 0 THEN 1 ELSE -1)
                     ELSE (IF dy > 0 THEN 1 ELSE -1)
    IN  pushValid([i \in 1..3 |->
                     IF horizontal
                     THEN Pos(target.x + (i - 1) * direction, target.y)
                     ELSE Pos(target.x, target.y + (i - 1) * direction)], size)

\* AttackPatterns.area3x3.getTargets: x from target.x - 1 to target.x + 1,
\* and for each x, y from target.y - 1 to target.y + 1.
area3x3GetTargets(origin, target, size) ==
    pushValid([i \in 1..9 |->
                 Pos(target.x - 1 + ((i - 1) \div 3), target.y - 1 + ((i - 1) % 3))], size)

\* WeaponSystem.createWeapon(name, range, damage, pattern)
createWeapon(name, range, damage, pattern) ==
    [name |-> name, range |-> range, damage |-> damage, pattern |-> pattern]

\* The predefined WEAPONS.
WEAPONS ==
    [airstrike     |-> createWeapon("Airstrike", 8, 1, "plus"),
     heavyShell    |-> createWeapon("Heavy Shell", 6, 2, "single"),
     torpedoLine   |-> createWeapon("Torpedo Line", 4, 1, "line"),
     stealthStrike |-> createWeapon("Stealth Strike", 3, 1, "single")]

\* A range check that measures the distance along the x axis only.
isInRangeAlongX(weapon, origin, target) ==
    Abs(origin.x - target.x) <= weapon.range

\* WeaponSystem.isInRange(weapon, origin, target)
isInRange(weapon, origin, target) ==
    LET distance == Max(Abs(origin.x - target.x), Abs(origin.y - target.y))
    IN  distance <= weapon.range

\* A getPositionsInRange that keeps the positions at most range steps away
\* along the rows and columns.
getPositionsInRangeBySteps(center, range, size) ==
    LET x0 == Max(0, center.x - range)
        x1 == Min(size.width - 1, center.x + range)
        y0 == Max(0, center.y - range)
        y1 == Min(size.height - 1, center.y + range)
        h  == Max(0, y1 - y0 + 1)
        w  == Max(0, x1 - x0 + 1)
    IN  SelectSeq([i \in 1..(w * h) |-> Pos(x0 + ((i - 1) \div h), y0 + ((i - 1) % h))],
                  LAMBDA p : Abs(center.x - p.x) + Abs(center.y - p.y) <= range)

\* BoardManager.getPositionsInRange(center, range, boardSize): x runs from
\* max(0, center.x - range) to min(width - 1, center.x + range), y likewise
\* inside it, and a position is pushed when getDistance(center, it) <= range.
getPositionsInRange(center, range, size) ==
    LET x0 == Max(0, center.x - range)
        x1 == Min(size.width - 1, center.x + range)
        y0 == Max(0, center.y - range)
        y1 == Min(size.height - 1, center.y + range)
        h  == Max(0, y1 - y0 + 1)
        w  == Max(0, x1 - x0 + 1)
    IN  SelectSeq([i \in 1..(w * h) |-> Pos(x0 + ((i - 1) \div h), y0 + ((i - 1) % h))],
                  LAMBDA p : getDistance(center, p) <= range)

(* --------------------------- PowerUpFactory --------------------------- *)
\* The names createPowerUp's configs give the types.
powerUpName(type) ==
    CASE type = "repair"     -> "Repair Kit"
      [] type = "radar"      -> "Radar Sweep"
      [] type = "extra-turn" -> "Extra Turn"
      [] type = "bomb"       -> "Mega Bomb"

\* PowerUpFactory.createPowerUp(type, position)
createPowerUp(type, position) ==
    [type |-> type, name |-> powerUpName(type), position |-> position]

\* PowerUpFactory.spawnRandomPowerUp(position): every power-up the draw from
\* ['repair', 'radar', 'extra-turn', 'bomb'] can give.
PowerUpFactory_spawnRandomPowerUp(position) ==
    {createPowerUp(randomType, position) : randomType \in {"repair", "radar", "extra-turn", "bomb"}}

(* ------------------------------ SpecPure ------------------------------ *)
\* The set of the elements of a sequence, and whether it repeats one.
cellsOf(seq) == {seq[i] : i \in 1..Len(seq)}
noDuplicates(seq) == Cardinality(cellsOf(seq)) = Len(seq)

\* Each behaviour applies one of the functions to one input.

\* The largest range getPositionsInRange is asked about.
MaxRadius == 3

WeaponNames == {"airstrike", "heavyShell", "torpedoLine", "stealthStrike"}

\* WeaponSystem.isInRange on a predefined weapon.
IsInRangeCall ==
    \E name \in WeaponNames, origin \in RangeStarts, target \in ProbeTargets :
        /\ lastOp = NoOp
        /\ lastOp' = [op |-> "isInRange", weapon |-> WEAPONS[name], origin |-> origin,
                      target |-> target,
                      result |-> isInRange(WEAPONS[name], origin, target)]
        /\ UNCHANGED <<ship, gs, ai, ctl, timers, calls, ach>>

\* AttackPatterns.plus.getTargets
PlusGetTargetsCall ==
    \E origin \in RangeStarts, target \in WeaponCells :
        /\ lastOp = NoOp
        /\ lastOp' = [op |-> "plus", origin |-> origin, target |-> target,
                      result |-> plusGetTargets(origin, target, weaponBoardSize)]
        /\ UNCHANGED <<ship, gs, ai, ctl, timers, calls, ach>>

\* AttackPatterns.area3x3.getTargets
Area3x3GetTargetsCall ==
    \E origin \in RangeStarts, target \in WeaponCells :
        /\ lastOp = NoOp
        /\ lastOp' = [op |-> "area3x3", origin |-> origin, target |-> target,
                      result |-> area3x3GetTargets(origin, target, weaponBoardSize)]
        /\ UNCHANGED <<ship, gs, ai, ctl, timers, calls, ach>>

\* AttackPatterns.line.getTargets
LineGetTargetsCall ==
    \E origin \in WeaponCells, target \in WeaponCells :
        /\ lastOp = NoOp
        /\ lastOp' = [op |-> "line", origin |-> origin, target |-> target,
                      result |-> lineGetTargets(origin, target, weaponBoardSize)]
        /\ UNCHANGED <<ship, gs, ai, ctl, timers, calls, ach>>

\* BoardManager.getPositionsInRange
GetPositionsInRangeCall ==
    \E center \in WeaponCells, range \in 0..MaxRadius :
        /\ lastOp = NoOp
        /\ lastOp' = [op |-> "getPositionsInRange", center |-> center, range |-> range,
                      result |-> getPositionsInRange(center, range, weaponBoardSize)]
        /\ UNCHANGED <<ship, gs, ai, ctl, timers, calls, ach>>

\* WeaponSystem.getAttackTargets on the weapon of the ship under test, with
\* the weapon's range and damage.
ShipWeaponCall ==
    \E origin \in RangeStarts, target \in WeaponCells :
        /\ lastOp = NoOp
        /\ lastOp' = [op |-> "getAttackTargets", origin |-> origin, target |-> target,
                      range |-> ship.range, damage |-> ship.damage,
                      result |-> getAttackTargets(ship, origin, target)]
        /\ UNCHANGED <<ship, gs, ai, ctl, timers, calls, ach>>

\* PowerUpFactory.spawnRandomPowerUp(position)
SpawnRandomPowerUpCall ==
    \E position \in WeaponCells :
      \E powerUp \in PowerUpFactory_spawnRandomPowerUp(position) :
        /\ lastOp = NoOp
        /\ lastOp' = [op |-> "spawnRandomPowerUp", position |-> position, result |-> powerUp]
        /\ UNCHANGED <<ship, gs, ai, ctl, timers, calls, ach>>

\* The player boards the difficulty modifier is asked about: untouched, with
\* two cells already attacked, and with a single cell left to attack.
ModifierBoards ==
    {createEmptyBoard,
     [createEmptyBoard EXCEPT !.cells[Pos(0, 0)].state = "miss",
                              !.cells[Pos(1, 1)].state = "miss"],
     [createEmptyBoard EXCEPT
         !.cells = [p \in BoardPositions |->
                       IF p = Pos(0, 0) THEN @[p] ELSE [@[p] EXCEPT !.state = "miss"]]]}

\* AIController.applyDifficultyModifier(targetPosition, playerBoard) for every
\* draw of Math.random(): the targets it can return, draw by draw.
ApplyDifficultyModifierCall ==
    /\ lastOp = NoOp
    /\ \E difficulty \in Difficulties, playerBoard \in ModifierBoards :
        LET validTargets == getValidTargetsInRange(playerBoard, Null) IN
        \E k \in 1..Len(validTargets) :
            LET o == [ai |-> NewAI(difficulty), target |-> Some(validTargets[k]), source |-> "hunt"]
            IN  /\ lastOp' = [op |-> "applyDifficultyModifier", difficulty |-> difficulty,
                              target |-> validTargets[k],
                              validTargets |-> cellsOf(validTargets),
                              returned |-> [random \in RollGrid |->
                                  {r.target[1] : r \in applyDifficultyModifierDrawn(o, playerBoard, random)}]]
                /\ UNCHANGED <<ship, gs, ai, ctl, timers, calls, ach>>

NextPure ==
    \/ IsInRangeCall
    \/ PlusGetTargetsCall
    \/ Area3x3GetTargetsCall
    \/ LineGetTargetsCall
    \/ GetPositionsInRangeCall
    \/ ShipWeaponCall
    \/ SpawnRandomPowerUpCall
    \/ ApplyDifficultyModifierCall

SpecPure == InitShip /\ [][NextPure]_vars

\* C21: isInRange(weapon, a, b) is true exactly when the Chebyshev distance
\* max(|dx|, |dy|) between a and b is at most weapon.range (true at distance
\* = range, false at range + 1), and it gives the same answer for (b, a).
C21_IsInRange ==
    lastOp.op = "isInRange" =>
        LET dx == Abs(lastOp.origin.x - lastOp.target.x)
            dy == Abs(lastOp.origin.y - lastOp.target.y)
            chebyshev == IF dx >= dy THEN dx ELSE dy
        IN  /\ lastOp.result <=> (chebyshev <= lastOp.weapon.range)
            /\ chebyshev = lastOp.weapon.range => lastOp.result
            /\ chebyshev = lastOp.weapon.range + 1 => ~lastOp.result
            /\ lastOp.result = isInRange(lastOp.weapon, lastOp.target, lastOp.origin)

\* C21 witness: a target exactly at the weapon's range along y and nearer
\* along x is in range.
C21_Witness ==
    /\ lastOp.op = "isInRange"
    /\ lastOp.result
    /\ Abs(lastOp.origin.y - lastOp.target.y) = lastOp.weapon.range
    /\ Abs(lastOp.origin.x - lastOp.target.x) < lastOp.weapon.range
    /\ Abs(lastOp.origin.x - lastOp.target.x) > 0

\* How many of a target's two coordinates lie on the border of the board the
\* patterns are resolved on: 0 in the interior, 1 on an edge, 2 at a corner.
bordersTouched(t) ==
    (IF t.x = 0 \/ t.x = WeaponBoardSize - 1 THEN 1 ELSE 0) +
    (IF t.y = 0 \/ t.y = WeaponBoardSize - 1 THEN 1 ELSE 0)

\* C22: for every in-bounds target the plus pattern returns exactly the
\* target and its in-bounds orthogonal neighbours (5 cells in the interior, 3
\* at a corner), and the 3x3 area pattern returns exactly the in-bounds cells
\* of the 3x3 block centred on the target (9 in the interior, 6 on an edge, 4
\* at a corner); neither returns a duplicate or an out-of-bounds cell.
C22_PlusAndArea3x3 ==
    /\ lastOp.op = "plus" =>
          LET t == lastOp.target IN
          /\ cellsOf(lastOp.result) =
                {p \in WeaponCells : Abs(p.x - t.x) + Abs(p.y - t.y) <= 1}
          /\ noDuplicates(lastOp.result)
          /\ bordersTouched(t) = 0 => Len(lastOp.result) = 5
          /\ bordersTouched(t) = 2 => Len(lastOp.result) = 3
    /\ lastOp.op = "area3x3" =>
          LET t == lastOp.target IN
          /\ cellsOf(lastOp.result) =
                {p \in WeaponCells : Abs(p.x - t.x) <= 1 /\ Abs(p.y - t.y) <= 1}
          /\ noDuplicates(lastOp.result)
          /\ bordersTouched(t) = 0 => Len(lastOp.result) = 9
          /\ bordersTouched(t) = 1 => Len(lastOp.result) = 6
          /\ bordersTouched(t) = 2 => Len(lastOp.result) = 4

\* C22 witness: the plus pattern on the far corner returns three cells.
C22_Witness ==
    /\ lastOp.op = "plus"
    /\ lastOp.target = Pos(WeaponBoardSize - 1, WeaponBoardSize - 1)
    /\ Len(lastOp.result) = 3

\* The cell i steps from the target along an axis in a direction.
lineStep(t, horizontal, direction, i) ==
    IF horizontal THEN Pos(t.x + i * direction, t.y) ELSE Pos(t.x, t.y + i * direction)

\* A result is the walk of up to three cells from the target along an axis in
\* a direction: the in-bounds ones of the target and the next two cells, in
\* that order, all three of them when the last one is on the board.
isLineWalk(result, t, horizontal, direction) ==
    /\ result = SelectSeq([i \in 1..3 |-> lineStep(t, horizontal, direction, i - 1)],
                          LAMBDA p : p \in WeaponCells)
    /\ Len(result) = 3 <=> lineStep(t, horizontal, direction, 2) \in WeaponCells

\* The directions along a coordinate that lead away from the origin: the sign
\* of the difference, and either direction when there is none.
awayDirections(d) == IF d > 0 THEN {1} ELSE IF d < 0 THEN {-1} ELSE {1, -1}

\* C23: the line pattern picks the dominant axis of target - origin and
\* returns the up to three in-bounds cells that start at the target and walk
\* along that axis away from the origin: at most 3 cells, exactly 3 when none
\* is clipped, all on the target's row or all on the target's column.
C23_LinePattern ==
    lastOp.op = "line" =>
        LET t  == lastOp.target
            dx == t.x - lastOp.origin.x
            dy == t.y - lastOp.origin.y
        IN  /\ \/ /\ Abs(dx) >= Abs(dy)
                  /\ \E direction \in awayDirections(dx) :
                        isLineWalk(lastOp.result, t, TRUE, direction)
               \/ /\ Abs(dy) >= Abs(dx)
                  /\ \E direction \in awayDirections(dy) :
                        isLineWalk(lastOp.result, t, FALSE, direction)
            /\ Len(lastOp.result) <= 3
            /\ lastOp.result[1] = t
            /\ \/ \A i \in 1..Len(lastOp.result) : lastOp.result[i].y = t.y
               \/ \A i \in 1..Len(lastOp.result) : lastOp.result[i].x = t.x

\* C23 witness: a target left of and slightly below the origin gives the
\* three cells of its row towards the left edge.
C23_Witness ==
    /\ lastOp.op = "line"
    /\ lastOp.target.x < lastOp.origin.x - 1
    /\ lastOp.target.y = lastOp.origin.y + 1
    /\ lastOp.result = <<lastOp.target, Pos(lastOp.target.x - 1, lastOp.target.y),
                         Pos(lastOp.target.x - 2, lastOp.target.y)>>

C25_ShipWeapons ==
    lastOp.op = "getAttackTargets" =>
        LET t == lastOp.target IN
        CASE ship.type = "carrier" ->
                /\ lastOp.range = 8
                /\ lastOp.damage = 1
                /\ cellsOf(lastOp.result) =
                      {p \in WeaponCells : Abs(p.x - t.x) + Abs(p.y - t.y) <= 1}
          [] ship.type = "battleship" ->
                /\ lastOp.range = 6
                /\ lastOp.damage = 2
                /\ lastOp.result = <<t>>
          [] ship.type = "destroyer" ->
                /\ lastOp.range = 4
                /\ lastOp.damage = 1
                /\ lastOp.result = lineGetTargets(lastOp.origin, t, weaponBoardSize)
          [] ship.type = "submarine" ->
                /\ lastOp.range = 3
                /\ lastOp.damage = 1
                /\ lastOp.result = <<t>>

\* C25 witness: the carrier's weapon, asked for the targets of a strike on an
\* interior cell, resolves to that cell alone.
C25_Witness ==
    /\ lastOp.op = "getAttackTargets"
    /\ ship.type = "carrier"
    /\ bordersTouched(lastOp.target) = 0
    /\ lastOp.range = 8
    /\ lastOp.result = <<lastOp.target>>

\* C26: spawnRandomPowerUp(position) returns a power-up at exactly the given
\* position whose type is one of repair, radar, extra-turn or airstrike.
C26_SpawnRandomPowerUp ==
    lastOp.op = "spawnRandomPowerUp" =>
        /\ lastOp.result.position = lastOp.position
        /\ lastOp.result.type \in {"repair", "radar", "extra-turn", "airstrike"}

\* C26 witness: the power-up drawn for a position lies there and is a bomb.
C26_Witness ==
    /\ lastOp.op = "spawnRandomPowerUp"
    /\ lastOp.result.position = lastOp.position
    /\ lastOp.result.type = "bomb"
    /\ lastOp.result.name = "Mega Bomb"

MaxStackBeforeHit == 4

\* The harness makes at most this many calls in a run.
MaxCalls == 4

attackedCells(board) ==
    {p \in BoardPositions : board.cells[p].state \in {"hit", "miss", "sunk"}}

\* The harness drops its bombs on the middle of a board.
BombTargets == {Pos(boardSize.width \div 2, boardSize.height \div 2)}

\* As in the AI test: a game state whose two fleets have been auto-placed, and
\* a new AIController.
InitAI ==
    /\ \E pb \in autoPlaceShips(boardWithShips("player"), 1), ab \in autoPlaceShips(boardWithShips("ai"), 1) :
          gs = [createInitialState EXCEPT !.playerBoard = pb, !.aiBoard = ab]
    /\ ai \in {NewAI(d) : d \in Difficulties}
    /\ ship = createShip(shipTypes[1], <<"test">>)
    /\ ctl = NewControl
    /\ timers = NoTimers
    /\ calls = 0
    /\ ach = NewAchievementManager
    /\ lastOp = NoOp

\* One more call of the harness.
HarnessCall == calls < MaxCalls /\ calls' = calls + 1 /\ UNCHANGED ach

\* ai.takeTurn(gameState)
TakeTurnCall ==
    /\ HarnessCall
    /\ \E o \in takeTurn(ai, gs.aiBoard, gs.playerBoard) :
        /\ ai' = o.ai
        /\ lastOp' = [op |-> "takeTurn", target |-> o.target, source |-> o.source,
                      popped |-> Len(ai.targetStack) - Len(o.ai.targetStack),
                      modeBefore |-> ai.targetMode, stackBefore |-> ai.targetStack]
        /\ UNCHANGED <<ship, gs, ctl, timers>>

\* The target takeTurn has just returned is attacked with the first AI ship
\* that can attack it, and the result is reported to the AI (the core of
\* executeAITurn).
AttackTargetCall ==
    /\ HarnessCall
    /\ lastOp.op = "takeTurn"
    /\ lastOp.target # Null
    /\ \E i \in 1..Len(gs.aiBoard.ships) :
          /\ canShipAttack(gs.aiBoard.ships[i], lastOp.target[1])
          /\ \A j \in 1..(i - 1) : ~canShipAttack(gs.aiBoard.ships[j], lastOp.target[1])
          /\ LET r == executeAttack(gs.playerBoard, gs.aiBoard.ships[i], lastOp.target[1])
             IN  /\ gs' = [gs EXCEPT !.playerBoard = r.board]
                 /\ ai' = processAttackResult(ai, lastOp.target[1], r.result.hit, r.result.sunk)
                 /\ lastOp' = [op |-> "attack", hit |-> r.result.hit, sunk |-> r.result.sunk]
    /\ UNCHANGED <<ship, ctl, timers>>

\* The positions the harness reports: any cell for a hit without a sink, and
\* one cell for the reports that do not look at the position.
ReportPositions(hit, sunk) ==
    IF hit /\ ~sunk THEN BoardPositions ELSE {Pos(0, 0)}

\* ai.processAttackResult(position, hit, sunk) with any arguments.
ProcessAttackResultCall ==
    /\ HarnessCall
    /\ \E hit \in BOOLEAN, sunk \in BOOLEAN : \E position \in ReportPositions(hit, sunk) :
        /\ (hit /\ ~sunk) => Len(ai.targetStack) <= MaxStackBeforeHit
        /\ ai' = processAttackResult(ai, position, hit, sunk)
        /\ lastOp' = [op |-> "processAttackResult", hit |-> hit, sunk |-> sunk,
                      fresh |-> ai = NewAI(ai.difficulty),
                      modeBefore |-> ai.targetMode, stackBefore |-> Len(ai.targetStack)]
        /\ UNCHANGED <<ship, gs, ctl, timers>>

\* ai.reset()
ResetCall ==
    /\ HarnessCall
    /\ ai' = reset(ai)
    /\ lastOp' = [op |-> "reset"]
    /\ UNCHANGED <<ship, gs, ctl, timers>>

\* A bomb dropped on a board (executeBombAttack(target, targetBoard)).
BombCall ==
    /\ HarnessCall
    /\ \E target \in BombTargets, targetBoard \in {"player", "ai"} :
        /\ gs' = IF targetBoard = "player"
                 THEN [gs EXCEPT !.playerBoard = executeBombAttack(gs.playerBoard, target).board]
                 ELSE [gs EXCEPT !.aiBoard = executeBombAttack(gs.aiBoard, target).board]
        /\ lastOp' = [op |-> "bomb", targetBoard |-> targetBoard]
        /\ UNCHANGED <<ship, ai, ctl, timers>>

(* ----------------------------- SpecCombat ----------------------------- *)
\* The two fleets created on empty boards, not yet placed.
InitCombat ==
    /\ gs = [createInitialState EXCEPT !.playerBoard = boardWithShips("player"),
                                       !.aiBoard = boardWithShips("ai")]
    /\ ai = NewAI("medium")
    /\ ship = createShip(shipTypes[1], <<"test">>)
    /\ ctl = NewControl
    /\ timers = NoTimers
    /\ calls = 0
    /\ ach = NewAchievementManager
    /\ lastOp = NoOp

boardOf(g, owner) == IF owner = "player" THEN g.playerBoard ELSE g.aiBoard

withBoard(g, owner, board) ==
    IF owner = "player" THEN [g EXCEPT !.playerBoard = board] ELSE [g EXCEPT !.aiBoard = board]

Owners == {"player", "ai"}

isPlaced(board) == \A i \in 1..Len(board.ships) : Len(board.ships[i].positions) > 0

\* The first ship of the board that is not sunk and can attack the target
\* (ships.find(ship => !ship.isSunk && ShipManager.canShipAttack(ship, target))),
\* as an index, 0 if none.
findShipInRange(board, target) ==
    LET can(i) == ~board.ships[i].isSunk /\ canShipAttack(board.ships[i], target)
    IN  IF \E i \in 1..Len(board.ships) : can(i)
        THEN CHOOSE i \in 1..Len(board.ships) : can(i) /\ \A j \in 1..(i - 1) : ~can(j)
        ELSE 0

\* gameStateManager.autoPlaceShips(board, board.ships) on a fleet not yet placed.
AutoPlaceShipsCall ==
    \E owner \in Owners :
        /\ ~isPlaced(boardOf(gs, owner))
        /\ \E b \in autoPlaceShips(boardOf(gs, owner), 1) : gs' = withBoard(gs, owner, b)
        /\ lastOp' = [op |-> "autoPlaceShips", owner |-> owner]
        /\ UNCHANGED <<ship, ai, ctl, timers, calls, ach>>

\* executeAttack(attackingShip, target, 'player') with an AI ship in range.
ExecuteAttackCall ==
    \E target \in BoardPositions :
        /\ isPlaced(gs.playerBoard)
        /\ findShipInRange(gs.aiBoard, target) # 0
        /\ LET r == executeAttack(gs.playerBoard, gs.aiBoard.ships[findShipInRange(gs.aiBoard, target)], target)
           IN  /\ gs' = [gs EXCEPT !.playerBoard = r.board]
               /\ lastOp' = [op |-> "executeAttack", target |-> target,
                             hit |-> r.result.hit, sunk |-> r.result.sunk]
        /\ UNCHANGED <<ship, ai, ctl, timers, calls, ach>>

\* executeBombAttack(target, targetBoard)
ExecuteBombAttackCall ==
    \E target \in BombTargets, targetBoard \in Owners :
        /\ isPlaced(boardOf(gs, targetBoard))
        /\ LET r == executeBombAttack(boardOf(gs, targetBoard), target)
           IN  /\ gs' = withBoard(gs, targetBoard, r.board)
               /\ lastOp' = [op |-> "executeBombAttack", hit |-> r.result.hit, sunk |-> r.result.sunk]
        /\ UNCHANGED <<ship, ai, ctl, timers, calls, ach>>

\* The amounts ShipManager.repairShip is called with on a fleet ship.
RepairAmounts == 0..RepairAmount

\* ShipManager.repairShip(ship, amount) on a ship of the player's fleet.
FleetRepairShipCall ==
    \E i \in 1..Len(gs.playerBoard.ships), amount \in RepairAmounts :
        /\ gs' = [gs EXCEPT !.playerBoard.ships[i] = repairShip(@, amount)]
        /\ lastOp' = [op |-> "ShipManager.repairShip"]
        /\ UNCHANGED <<ship, ai, ctl, timers, calls, ach>>

\* An id no ship of the player's fleet has: that of the AI's first ship.
UnknownShipId == createShips("ai")[1].id

\* PowerUpManager.repairShip(gameState, 'player', shipId) with the id of a
\* ship of the player's fleet, or with an id the fleet does not have.
PowerUpRepairShipCall ==
    \E shipId \in {gs.playerBoard.ships[i].id : i \in 1..Len(gs.playerBoard.ships)}
                  \cup {UnknownShipId} :
        LET r == powerUpRepairShip(gs.playerBoard, shipId)
        IN  /\ gs' = [gs EXCEPT !.playerBoard = r.board]
            /\ lastOp' = [op |-> "PowerUpManager.repairShip", shipId |-> shipId, ok |-> r.ok]
            /\ UNCHANGED <<ship, ai, ctl, timers, calls, ach>>

\* gameStateManager.checkVictoryCondition()
CheckVictoryConditionCall ==
    /\ lastOp' = [op |-> "checkVictoryCondition",
                  winner |-> checkVictoryCondition(gs.playerBoard, gs.aiBoard)]
    /\ UNCHANGED <<ship, gs, ai, ctl, timers, calls, ach>>

NextCombat ==
    \/ AutoPlaceShipsCall
    \/ ExecuteAttackCall
    \/ ExecuteBombAttackCall
    \/ FleetRepairShipCall
    \/ PowerUpRepairShipCall
    \/ CheckVictoryConditionCall

SpecCombat == InitCombat /\ [][NextCombat]_vars

(* ------------------------ claims on SpecCombat ------------------------ *)
\* Every cell a placed ship lies on has been attacked: none is a ship cell.
allCellsAttacked(board, i) ==
    /\ Len(board.ships[i].positions) > 0
    /\ \A k \in 1..Len(board.ships[i].positions) :
          board.cells[board.ships[i].positions[k]].state # "ship"

\* C39: in every reachable state a placed ship none of whose cells is still
\* in state ship is sunk, after any sequence of attacks, bombs and repairs.
C39_AttackedShipIsSunk ==
    \A owner \in Owners : \A i \in 1..Len(boardOf(gs, owner).ships) :
        allCellsAttacked(boardOf(gs, owner), i) => boardOf(gs, owner).ships[i].isSunk

\* C39, the failing case: a ship of the player's fleet that was repaired
\* between two hits is afloat with hp left, each of its cells hit, and no
\* ship cell is left on the board to attack.
C39_Witness ==
    /\ lastOp.op = "executeAttack"
    /\ lastOp.hit /\ ~lastOp.sunk
    /\ \E i \in 1..Len(gs.playerBoard.ships) :
          /\ allCellsAttacked(gs.playerBoard, i)
          /\ ~gs.playerBoard.ships[i].isSunk
          /\ gs.playerBoard.ships[i].hp > 0
          /\ \A k \in 1..Len(gs.playerBoard.ships[i].positions) :
                gs.playerBoard.cells[gs.playerBoard.ships[i].positions[k]].state = "hit"
    /\ checkVictoryCondition(gs.playerBoard, gs.aiBoard) = "null"

AllShips == {gs.playerBoard.ships[i] : i \in 1..Len(gs.playerBoard.ships)}
            \cup {gs.aiBoard.ships[i] : i \in 1..Len(gs.aiBoard.ships)}

allSunk(board) == \A i \in 1..Len(board.ships) : board.ships[i].isSunk

\* C5: in every reachable state every ship has 0 <= hp <= maxHp, and is sunk
\* exactly when its hp is 0; this is preserved by placement, damageShip (inside
\* the normal attack), the bomb attack, ShipManager.repairShip and
\* PowerUpManager.repairShip.
C5_ShipInvariant ==
    \A s \in AllShips :
        /\ 0 <= s.hp /\ s.hp <= s.maxHp
        /\ s.isSunk <=> s.hp = 0

\* C5 witness: a ship that was sunk and has been brought back by
\* ShipManager.repairShip, next to a ship damaged and still afloat.
C5_Witness ==
    /\ lastOp.op = "ShipManager.repairShip"
    /\ \E s \in AllShips : s.hp > 0 /\ ~s.isSunk /\ \E k \in 1..Len(s.positions) :
          gs.playerBoard.cells[s.positions[k]].state = "sunk"
    /\ \E s \in AllShips : 0 < s.hp /\ s.hp < s.maxHp

\* C4 as stated: checkVictoryCondition returns 'ai' when every player ship is
\* sunk, 'player' when every AI ship is sunk, and null when each board still
\* has a ship that is not sunk.
C4_AsStated ==
    lastOp.op = "checkVictoryCondition" =>
        /\ allSunk(gs.playerBoard) => lastOp.winner = "ai"
        /\ allSunk(gs.aiBoard) => lastOp.winner = "player"
        /\ (~allSunk(gs.playerBoard) /\ ~allSunk(gs.aiBoard)) => lastOp.winner = "null"

\* C4 amended: checkVictoryCondition returns 'ai' when every player ship is
\* sunk, also when every AI ship is sunk too; it returns 'player' when every
\* AI ship is sunk and some player ship is not; otherwise null.
C4_PlayerFleetFirst ==
    lastOp.op = "checkVictoryCondition" =>
        lastOp.winner = IF allSunk(gs.playerBoard) THEN "ai"
                        ELSE IF allSunk(gs.aiBoard) THEN "player"
                        ELSE "null"

\* C4 witness: the check made with both fleets completely sunk.
C4_Witness ==
    /\ lastOp.op = "checkVictoryCondition"
    /\ allSunk(gs.playerBoard) /\ allSunk(gs.aiBoard)
    /\ lastOp.winner = "ai"

\* The positions of ship s as a set.
positionSet(s) == {s.positions[k] : k \in 1..Len(s.positions)}

\* What one attacked cell of a board looks like after an attack with the given
\* damage: b is the board before, b2 the board after, t the cell.
attackedCellPost(b, b2, t, damage) ==
    LET cell == b.cells[t]
        i == FindShip(b, cell.shipId)
    IN  IF cell.state = "ship" /\ i # 0 /\ ~b.ships[i].isSunk
        THEN /\ b2.ships[i].hp = b.ships[i].hp - damage
             /\ b2.ships[i].isSunk = (b2.ships[i].hp = 0)
             /\ b2.cells[t].state = IF b2.ships[i].hp = 0 THEN "sunk" ELSE "hit"
             /\ b2.ships[i].hp = 0 =>
                    \A p \in positionSet(b.ships[i]) : b2.cells[p].state = "sunk"
             /\ \A j \in 1..Len(b.ships) : j # i => b2.ships[j] = b.ships[j]
             /\ \A p \in BoardPositions :
                    (p # t /\ ~(b2.ships[i].hp = 0 /\ p \in positionSet(b.ships[i])))
                        => b2.cells[p] = b.cells[p]
        ELSE IF cell.state = "water"
             THEN b2 = [b EXCEPT !.cells[t].state = "miss"]
             ELSE b2 = b

\* C12: executeAttack applies, to the one cell of the weapon pattern: a cell in
\* state ship of a ship that is not sunk costs that ship weapon.damage hp and
\* becomes hit, or sunk if the ship's hp is now 0, and then every position of
\* the ship is sunk; a water cell becomes miss; nothing else changes.
C12_AttackCells ==
    [][lastOp'.op = "executeAttack" =>
          attackedCellPost(gs.playerBoard, gs'.playerBoard, lastOp'.target,
                           gs.aiBoard.ships[findShipInRange(gs.aiBoard, lastOp'.target)].damage)]_vars

\* C12 witness: an attack that sank a ship of more than one cell, every
\* position of which is now sunk.
C12_Witness ==
    /\ lastOp.op = "executeAttack"
    /\ lastOp.hit /\ lastOp.sunk
    /\ \E i \in 1..Len(gs.playerBoard.ships) :
          /\ lastOp.target \in positionSet(gs.playerBoard.ships[i])
          /\ Len(gs.playerBoard.ships[i].positions) > 1
          /\ gs.playerBoard.ships[i].isSunk
          /\ \A p \in positionSet(gs.playerBoard.ships[i]) : gs.playerBoard.cells[p].state = "sunk"

\* C19: PowerUpManager.repairShip on a ship of the player's fleet that is not
\* sunk returns true and raises its hp by 2, capped at maxHp, changing nothing
\* else; on a sunk ship or an unknown ship id it returns false and changes
\* nothing, so no sunk ship is revived.
C19_PowerUpRepair ==
    [][lastOp'.op = "PowerUpManager.repairShip" =>
          LET i == FindShip(gs.playerBoard, lastOp'.shipId)
          IN  IF i # 0 /\ ~gs.playerBoard.ships[i].isSunk
              THEN /\ lastOp'.ok
                   /\ gs'.playerBoard.ships[i].hp =
                          Min(gs.playerBoard.ships[i].maxHp, gs.playerBoard.ships[i].hp + 2)
                   /\ gs' = [gs EXCEPT !.playerBoard.ships[i].hp = gs'.playerBoard.ships[i].hp]
              ELSE /\ ~lastOp'.ok
                   /\ gs' = gs]_vars

\* C19 witness: the repair of a sunk ship of the player's fleet has just been
\* refused: the ship still has 0 hp and is sunk.
C19_Witness ==
    /\ lastOp.op = "PowerUpManager.repairShip"
    /\ ~lastOp.ok
    /\ FindShip(gs.playerBoard, lastOp.shipId) # 0
    /\ gs.playerBoard.ships[FindShip(gs.playerBoard, lastOp.shipId)].isSunk
    /\ gs.playerBoard.ships[FindShip(gs.playerBoard, lastOp.shipId)].hp = 0

(* ------------------------------ SpecBomb ------------------------------ *)
\* Both fleets auto-placed; the calls below act on the player's board.
InitBomb ==
    /\ \E pb \in autoPlaceShips(boardWithShips("player"), 1), ab \in autoPlaceShips(boardWithShips("ai"), 1) :
          gs = [createInitialState EXCEPT !.playerBoard = pb, !.aiBoard = ab]
    /\ ai = NewAI("medium")
    /\ ship = createShip(shipTypes[1], <<"test">>)
    /\ ctl = NewControl
    /\ timers = NoTimers
    /\ calls = 0
    /\ ach = NewAchievementManager
    /\ lastOp = NoOp

\* executeAttack(attackingShip, target, 'player') with the first AI ship in
\* range: it leaves hit, miss and sunk cells for the bombs to fall on.
NormalAttackCall ==
    \E target \in BoardPositions :
        /\ findShipInRange(gs.aiBoard, target) # 0
        /\ gs' = [gs EXCEPT !.playerBoard =
                     executeAttack(@, gs.aiBoard.ships[findShipInRange(gs.aiBoard, target)], target).board]
        /\ lastOp' = [op |-> "attack", target |-> target]
        /\ UNCHANGED <<ship, ai, ctl, timers, calls, ach>>

\* PowerUpManager.repairShip on a ship of the player's fleet: it leaves ships
\* that have hit cells and hp to spare.
RepairBeforeBombCall ==
    \E i \in 1..Len(gs.playerBoard.ships) :
        /\ powerUpRepairShip(gs.playerBoard, gs.playerBoard.ships[i].id).ok
        /\ gs' = [gs EXCEPT !.playerBoard = powerUpRepairShip(@, gs.playerBoard.ships[i].id).board]
        /\ lastOp' = [op |-> "repair", target |-> Pos(0, 0)]
        /\ UNCHANGED <<ship, ai, ctl, timers, calls, ach>>

\* executeBombAttack(target, 'player') on any cell of the board.
BombAttackCall ==
    \E target \in BoardPositions :
        LET r == executeBombAttack(gs.playerBoard, target)
        IN  /\ gs' = [gs EXCEPT !.playerBoard = r.board]
            /\ lastOp' = [op |-> "executeBombAttack", target |-> target,
                          hit |-> r.result.hit, sunk |-> r.result.sunk,
                          damage |-> r.result.damage]
            /\ UNCHANGED <<ship, ai, ctl, timers, calls, ach>>

NextBomb ==
    \/ NormalAttackCall
    \/ RepairBeforeBombCall
    \/ BombAttackCall

SpecBomb == InitBomb /\ [][NextBomb]_vars

\* The cells of the 3x3 block centred on target that are on the board.
bombBlock(target) ==
    {p \in BoardPositions : Abs(p.x - target.x) <= 1 /\ Abs(p.y - target.y) <= 1}

\* The cells of the block in state ship that belong to ship i of board b.
shipCellsIn(b, i, block) ==
    {p \in block : b.cells[p].state = "ship" /\ b.cells[p].shipId = b.ships[i].id}

\* How many of its cells in the block ship i is hit on: the bomb hits cell
\* after cell while the ship is afloat, BombDamage each.
bombHits(b, i, block) ==
    IF b.ships[i].isSunk THEN 0
    ELSE Min(Cardinality(shipCellsIn(b, i, block)),
             (b.ships[i].hp + BombDamage - 1) \div BombDamage)

RECURSIVE totalBombHits(_, _, _)
totalBombHits(b, n, block) ==
    IF n = 0 THEN 0 ELSE bombHits(b, n, block) + totalBombHits(b, n - 1, block)

\* The board b2 and the reported damage after a bomb on target of board b.
bombPost(b, b2, target, damage) ==
    LET block == bombBlock(target)
        hpAfter(i) == Max(0, b.ships[i].hp - BombDamage * bombHits(b, i, block))
        sunkByBomb(i) == bombHits(b, i, block) > 0 /\ hpAfter(i) = 0
    IN  /\ \A i \in 1..Len(b.ships) :
              IF bombHits(b, i, block) > 0
              THEN b2.ships[i] = [b.ships[i] EXCEPT !.hp = hpAfter(i), !.isSunk = sunkByBomb(i)]
              ELSE b2.ships[i] = b.ships[i]
        /\ \A p \in BoardPositions :
              IF \E i \in 1..Len(b.ships) : sunkByBomb(i) /\ p \in positionSet(b.ships[i])
              THEN b2.cells[p] = [b.cells[p] EXCEPT !.state = "sunk"]
              ELSE IF \E i \in 1..Len(b.ships) :
                         bombHits(b, i, block) > 0 /\ p \in shipCellsIn(b, i, block)
              THEN b2.cells[p] = [b.cells[p] EXCEPT !.state = "hit"]
              ELSE IF p \in block /\ b.cells[p].state = "water"
              THEN b2.cells[p] = [b.cells[p] EXCEPT !.state = "miss"]
              ELSE b2.cells[p] = b.cells[p]
        /\ damage = BombDamage * totalBombHits(b, Len(b.ships), block)

\* C13: a bomb on a target changes only the on-board cells of the 3x3 block
\* centred on it (and the other positions of a ship it sinks), whatever the
\* ships' weapons: a ship that is afloat is hit on its ship cells in the block,
\* 5 hp each with hp floored at 0, until it sinks; a ship brought to 0 is sunk
\* and all its positions are sunk; water cells of the block become miss; hit,
\* miss and sunk cells stay; the reported damage is 5 times the number of ship
\* cells on which a hit was counted.
C13_BombBlock ==
    [][lastOp'.op = "executeBombAttack" =>
          /\ bombPost(gs.playerBoard, gs'.playerBoard, lastOp'.target, lastOp'.damage)
          /\ gs'.aiBoard = gs.aiBoard]_vars

\* C13 witness: a bomb on a corner of the board, where the block is clipped to
\* four cells: it held one cell of a ship and water. The ship is sunk, its
\* position outside the block is sunk too, 5 damage is reported, and a water
\* cell outside the block is still water.
C13_Witness ==
    /\ lastOp.op = "executeBombAttack"
    /\ Cardinality(bombBlock(lastOp.target)) = 4
    /\ lastOp.damage = BombDamage
    /\ lastOp.sunk
    /\ \E p \in bombBlock(lastOp.target) : gs.playerBoard.cells[p].state = "miss"
    /\ \E p \in bombBlock(lastOp.target) : gs.playerBoard.cells[p].state = "sunk"
    /\ \E p \in BoardPositions \ bombBlock(lastOp.target) : gs.playerBoard.cells[p].state = "sunk"
    /\ \E p \in BoardPositions \ bombBlock(lastOp.target) : gs.playerBoard.cells[p].state = "water"

(* -------------------------- claims on SpecAI -------------------------- *)
StackSet(a) == {a.targetStack[k] : k \in 1..Len(a.targetStack)}

\* A hit-without-sink has just been reported to a new AIController.
FreshHitReported ==
    /\ lastOp.op = "processAttackResult"
    /\ lastOp.hit /\ ~lastOp.sunk
    /\ lastOp.fresh

\* C8: after processAttackResult(pos, hit = true, sunk = false) on a fresh AI
\* controller the mode is target and the target stack holds exactly the
\* orthogonal neighbours of pos that lie inside the board; no position outside
\* the board is ever on the stack.
C8_StackHoldsNeighboursOnBoard ==
    /\ \A k \in 1..Len(ai.targetStack) : isValidPosition(ai.targetStack[k])
    /\ FreshHitReported =>
          /\ ai.targetMode = "target"
          /\ StackSet(ai) = OrthogonalOnBoard(ai.lastHitPosition[1])
          /\ Len(ai.targetStack) = Cardinality(OrthogonalOnBoard(ai.lastHitPosition[1]))

\* C8, the failing case: a hit reported at a corner of the board leaves
\* positions outside the board on the stack.
C8_Witness ==
    /\ FreshHitReported
    /\ ai.lastHitPosition = Some(Pos(0, 0))
    /\ \E k \in 1..Len(ai.targetStack) : ~isValidPosition(ai.targetStack[k])

\* C9: after processAttackResult(pos, hit = true, sunk = true), reported by
\* itself or at the end of an attack, from any AI state, the mode is hunt, the
\* target stack is empty and lastHitPosition is null.
C9_SinkReturnsToHunt ==
    (lastOp.op \in {"processAttackResult", "attack"} /\ lastOp.hit /\ lastOp.sunk) =>
        /\ ai.targetMode = "hunt"
        /\ ai.targetStack = <<>>
        /\ ai.lastHitPosition = Null

\* C9 witness: a sink reported to an AI that was in target mode with targets
\* on its stack.
C9_Witness ==
    /\ lastOp.op = "processAttackResult"
    /\ lastOp.hit /\ lastOp.sunk
    /\ lastOp.modeBefore = "target"
    /\ lastOp.stackBefore > 0
    /\ ai.targetMode = "hunt"
    /\ ai.targetStack = <<>>

\* C10: takeTurn returns null or a position inside the player board whose cell
\* has not been attacked (not hit, miss or sunk), whether the target comes from
\* the hunt strategy, the cache, the target stack or the accuracy roll.
C10_TargetIsOpenCell ==
    (lastOp.op = "takeTurn" /\ lastOp.target # Null) =>
        /\ isValidPosition(lastOp.target[1])
        /\ gs.playerBoard.cells[lastOp.target[1]].state \notin {"hit", "miss", "sunk"}

\* C10 witness: takeTurn returns a target popped from the stack, after
\* discarding an entry on top of it, on a board with attacked cells.
C10_Witness ==
    /\ lastOp.op = "takeTurn"
    /\ lastOp.source = "stack"
    /\ lastOp.target # Null
    /\ attackedCells(gs.playerBoard) # {}
    /\ lastOp.popped > 1

\* The entries a turn took off the stack, from the top down.
poppedEntries ==
    [k \in 1..lastOp.popped |-> lastOp.stackBefore[Len(lastOp.stackBefore) - k + 1]]

\* A turn has just been taken by an AI in target mode with targets on its stack.
TargetModeTurn ==
    /\ lastOp.op = "takeTurn"
    /\ lastOp.modeBefore = "target"
    /\ lastOp.stackBefore # <<>>

\* C31: a turn taken in target mode pops the stack from the top, skipping the
\* entries that are no longer untried, and returns the first entry that still
\* is; when the stack runs empty the hunt strategy picks the target and the
\* mode is hunt afterwards, so that after a turn the AI is never in target mode
\* with an empty stack.
C31_TargetModeTurn ==
    TargetModeTurn =>
        /\ ai.targetStack = SubSeq(lastOp.stackBefore, 1, Len(lastOp.stackBefore) - lastOp.popped)
        /\ lastOp.source = "stack" =>
              /\ lastOp.target = Some(poppedEntries[lastOp.popped])
              /\ \A k \in 1..(lastOp.popped - 1) :
                    ~isValidTarget(gs.playerBoard, poppedEntries[k], Null)
        /\ lastOp.source = "hunt" =>
              /\ ai.targetStack = <<>>
              /\ \A k \in 1..lastOp.popped : ~isValidTarget(gs.playerBoard, poppedEntries[k], Null)
              /\ ai.targetMode = "hunt"
        /\ ai.targetMode = "target" => ai.targetStack # <<>>

\* C31, the failing case: every entry of the stack was popped and found
\* attacked or off the board, the hunt strategy chose the target, and the AI is
\* still in target mode, its stack empty.
C31_Witness ==
    /\ TargetModeTurn
    /\ lastOp.source = "hunt"
    /\ lastOp.target # Null
    /\ lastOp.popped = Len(lastOp.stackBefore)
    /\ ai.targetStack = <<>>
    /\ ai.targetMode = "target"

\* C32: processAttackResult with hit = false, reported by itself or at the end
\* of an attack, leaves the mode, the target stack and lastHitPosition as they
\* were, whatever sunk is.
C32_MissLeavesAI ==
    [][(lastOp'.op \in {"processAttackResult", "attack"} /\ ~lastOp'.hit) =>
          /\ ai'.targetMode = ai.targetMode
          /\ ai'.targetStack = ai.targetStack
          /\ ai'.lastHitPosition = ai.lastHitPosition]_vars

\* C32 witness: a miss with sunk = true reported to an AI in target mode with
\* targets on its stack and a last hit, which it all keeps.
C32_Witness ==
    /\ lastOp.op = "processAttackResult"
    /\ ~lastOp.hit /\ lastOp.sunk
    /\ lastOp.modeBefore = "target"
    /\ lastOp.stackBefore > 0
    /\ ai.targetMode = "target"
    /\ Len(ai.targetStack) = lastOp.stackBefore
    /\ ai.lastHitPosition # Null

\* C33: no position is on the target stack twice, after any sequence of
\* reported hits, misses and sinks, turns, attacks and resets.
C33_StackHasNoDuplicates ==
    \A i, j \in 1..Len(ai.targetStack) : i # j => ai.targetStack[i] # ai.targetStack[j]

\* C33 witness: a hit reported next to an earlier hit, so that a neighbour of
\* the new hit was already on the stack and is not pushed again.
C33_Witness ==
    /\ lastOp.op = "processAttackResult"
    /\ lastOp.hit /\ ~lastOp.sunk
    /\ lastOp.stackBefore > 0
    /\ Len(ai.targetStack) > lastOp.stackBefore
    /\ Len(ai.targetStack) < lastOp.stackBefore + 4

(* --------------------------- GameController --------------------------- *)
\* How many power-ups of one type an inventory holds at most.
MaxInventory == 1

\* How many extra turns are queued at most.
MaxExtraTurn == 1

\* How many of the water cells spawnRandomPowerUp can draw the model follows.
MaxSpawnChoices == 1

\* How many callbacks of one kind are pending at most.
MaxPending == 1

\* The types the spawn roll is followed with.
SpawnTypes == {"extra-turn", "bomb"}

\* What a handler has done, kept for lastOp: the side that resolved an attack,
\* whether handleEndTurn ran, whether endGame ran.
NoTrace == [attacker |-> "none", endTurn |-> FALSE, endGame |-> FALSE]

\* The controller with everything it owns, while a handler runs.
Controller(g, a, c, t) == [gs |-> g, ai |-> a, ctl |-> c, timers |-> t, trace |-> NoTrace]

\* An end of turn that ignores the queued extra turns.
handleEndTurnIgnoresExtraTurn(s) ==
    [s EXCEPT !.gs.phase = "ai-turn",
              !.ctl.isEnabled = FALSE,
              !.timers.executeAITurn = @ + 1,
              !.trace.endTurn = TRUE]

\* GameController.handleEndTurn (the definition in force, the later one).
handleEndTurn(s) ==
    IF s.gs.extraTurn > 0
    THEN [s EXCEPT !.gs.extraTurn = @ - 1, !.trace.endTurn = TRUE]
    ELSE [s EXCEPT !.gs.phase = "ai-turn",
                   !.ctl.isEnabled = FALSE,
                   !.timers.executeAITurn = @ + 1,
                   !.trace.endTurn = TRUE]

\* GameController.endGame(winner) with GameStateManager.endGame
endGame(s, winner) ==
    [s EXCEPT !.gs.phase = "game-over", !.gs.winner = winner, !.trace.endGame = TRUE]

\* GameController.spawnRandomPowerUp('player'): a water cell of the player's
\* board and a type are drawn.
spawnRandomPowerUp(g) ==
    LET cells == emptyCells(g.playerBoard)
        n == Min(Len(cells), MaxSpawnChoices)
    IN  IF n = 0 THEN {g}
        ELSE {[g EXCEPT !.playerBoard = spawnPowerUpAtPosition(@, cells[k], type)] :
                 k \in 1..n, type \in SpawnTypes}

\* GameController.processAttackResult(result, position, attacker): the spawn
\* roll, then the AI's bookkeeping when the AI attacked.
controllerProcessAttackResult(s, result, position, attacker) ==
    LET rolled ==
            IF ~result.hit THEN {s.gs}
            ELSE {s.gs} \cup
                 (IF attacker = "player" THEN spawnRandomPowerUp(s.gs)
                  ELSE {[s.gs EXCEPT !.powerUpInventory.ai[type] = @ + 1] :
                           type \in {t \in SpawnTypes : s.gs.powerUpInventory.ai[t] < MaxInventory}})
        a == IF attacker = "ai"
             THEN processAttackResult(s.ai, position, result.hit, result.sunk)
             ELSE s.ai
    IN  {[s EXCEPT !.gs = g, !.ai = a, !.trace.attacker = attacker] : g \in rolled}

\* The end of handlePlayerAttack and of the attack in executeAITurn: the
\* victory check.
winnerOf(s) == checkVictoryCondition(s.gs.playerBoard, s.gs.aiBoard)

\* A handlePlayerAttack without the check of the cell's state.
handlePlayerAttackAnyCell(s, position) ==
    LET i == findShipInRange(s.gs.playerBoard, position)
        viaShip == executeAttack(s.gs.aiBoard, s.gs.playerBoard.ships[i], position)
    IN  IF i = 0 THEN {s}
        ELSE {IF winnerOf(t) # "null" THEN endGame(t, winnerOf(t)) ELSE handleEndTurn(t) :
                 t \in controllerProcessAttackResult([s EXCEPT !.gs.aiBoard = viaShip.board],
                                                     viaShip.result, position, "player")}

\* GameController.handlePlayerAttack(position)
handlePlayerAttack(s, position) ==
    LET cell == s.gs.aiBoard.cells[position]
        i == findShipInRange(s.gs.playerBoard, position)
        viaBomb == executeBombAttack(s.gs.aiBoard, position)
        viaShip == executeAttack(s.gs.aiBoard, s.gs.playerBoard.ships[i], position)
        resolved ==
            IF s.ctl.selectedPowerUp = "bomb"
            THEN {[t EXCEPT !.ctl.selectedPowerUp = "null"] :
                     t \in controllerProcessAttackResult([s EXCEPT !.gs.aiBoard = viaBomb.board],
                                                         viaBomb.result, position, "player")}
            ELSE controllerProcessAttackResult([s EXCEPT !.gs.aiBoard = viaShip.board],
                                               viaShip.result, position, "player")
    IN  IF cell.state \in {"hit", "miss", "sunk"} THEN {s}
        ELSE IF s.ctl.selectedPowerUp # "bomb" /\ i = 0 THEN {s}
        ELSE {IF winnerOf(t) # "null" THEN endGame(t, winnerOf(t)) ELSE handleEndTurn(t) :
                 t \in resolved}

\* GameController.handleBombClick(position)
handleBombClick(s, position) ==
    LET r == executeBombAttack(s.gs.aiBoard, position)
    IN  {[t EXCEPT !.ctl.bombMode = FALSE, !.ctl.selectedPowerUp = "null"] :
            t \in controllerProcessAttackResult([s EXCEPT !.gs.aiBoard = r.board],
                                                r.result, position, "player")}

\* A cancelBombMode that does not refund the bomb.
cancelBombModeKeepsBomb(s) == [s EXCEPT !.ctl.bombMode = FALSE, !.ctl.selectedPowerUp = "null"]

\* GameController.cancelBombMode: the bomb is refunded.
cancelBombMode(s) ==
    [s EXCEPT !.gs.powerUpInventory.player["bomb"] = @ + 1,
              !.ctl.bombMode = FALSE, !.ctl.selectedPowerUp = "null"]

\* GameController.handleRadarClick(position): the revealed flags it sets are
\* read by the renderer only.
handleRadarClick(s, position) ==
    [s EXCEPT !.gs.powerUpInventory.player["radar"] = @ - 1,
              !.ctl.radarMode = FALSE, !.ctl.selectedPowerUp = "null"]

\* GameController.cancelRadarMode
cancelRadarMode(s) == [s EXCEPT !.ctl.radarMode = FALSE, !.ctl.selectedPowerUp = "null"]

\* GameController.handleShipPlace(position): the first ship not yet placed is
\* placed vertically at position when GameStateManager.placeShip accepts it.
handleShipPlace(s, position) ==
    LET board == s.gs.playerBoard
        unplaced == {i \in 1..Len(board.ships) : Len(board.ships[i].positions) = 0}
        i == CHOOSE k \in unplaced : \A j \in unplaced : k <= j
    IN  IF unplaced = {} THEN s
        ELSE IF isValidShipPlacement(board, board.ships[i], position, TRUE) = "true"
        THEN [s EXCEPT !.gs.playerBoard = placeShip(board, i, position, TRUE)]
        ELSE s

\* GameController.handlePowerUpCollection(position)
handlePowerUpCollection(s, position) ==
    IF s.gs.playerBoard.cells[position].state = "power-up"
    THEN [s EXCEPT !.gs = collectPowerUp(s.gs, "player", position).gs]
    ELSE s

\* GameController.handleCellClick(position, owner), the click debounce aside.
\* repairMode is never set: handleRepairPowerUp returns early because
\* UIRenderer.checkForDamagedShips answers false.
handleCellClick(s, position, owner) ==
    IF s.ctl.repairMode THEN {s}
    ELSE IF s.ctl.radarMode
    THEN {IF owner = "ai" THEN handleRadarClick(s, position) ELSE cancelRadarMode(s)}
    ELSE IF s.ctl.bombMode
    THEN IF owner = "ai" THEN handleBombClick(s, position) ELSE {cancelBombMode(s)}
    ELSE IF s.gs.phase = "setup"
    THEN {IF owner = "player" THEN handleShipPlace(s, position) ELSE s}
    ELSE IF s.gs.phase = "player-turn"
    THEN IF owner = "ai" THEN handlePlayerAttack(s, position)
         ELSE {handlePowerUpCollection(s, position)}
    ELSE {s}

\* GameController.handleBombPowerUp: the bomb is consumed on entering bomb mode.
handleBombPowerUp(s) ==
    IF s.gs.powerUpInventory.player["bomb"] <= 0 \/ s.ctl.bombMode THEN s
    ELSE [s EXCEPT !.gs.powerUpInventory.player["bomb"] = @ - 1,
                   !.ctl.bombMode = TRUE, !.ctl.selectedPowerUp = "bomb"]

\* GameController.handleRadarPowerUp
handleRadarPowerUp(s) ==
    IF s.gs.powerUpInventory.player["radar"] <= 0 THEN s
    ELSE [s EXCEPT !.ctl.radarMode = TRUE, !.ctl.selectedPowerUp = "radar"]

\* GameController.handleExtraTurnPowerUp
handleExtraTurnPowerUp(s) == [s EXCEPT !.gs.extraTurn = @ + 1]

\* GameController.handlePowerUpUse(type)
handlePowerUpUse(s, type) ==
    IF s.gs.powerUpInventory.player[type] <= 0 THEN s
    ELSE CASE type = "repair" -> s
           [] type = "radar" -> handleRadarPowerUp(s)
           [] type = "extra-turn" ->
                IF usePowerUp(s.gs, "player", type).ok
                THEN handleExtraTurnPowerUp([s EXCEPT !.gs = usePowerUp(s.gs, "player", type).gs])
                ELSE s
           [] type = "bomb" -> handleBombPowerUp(s)

\* Reading a property of a ship object: Some(value), or Null (undefined) when
\* the object has no property of that name.
property(s, name) == IF name \in DOMAIN s THEN Some(s[name]) ELSE Null

\* a < b on two property values: false when either is undefined.
lessThan(a, b) == a # Null /\ b # Null /\ a[1] < b[1]

\* a / b < 0.5 on two property values: false when either is undefined.
ratioBelowHalf(a, b) == a # Null /\ b # Null /\ 2 * a[1] < b[1]

\* AIController.shouldUsePowerUp(gameState, type): the answers it can give,
\* one for each outcome of its Math.random() draws.
shouldUsePowerUp(a, g, type) ==
    LET inventory == g.powerUpInventory.ai
        isDamaged(s) == lessThan(property(s, "currentHP"), property(s, "maxHP")) /\ ~s.isSunk
        damagedShips == SelectSeq(g.aiBoard.ships, isDamaged)
        criticallyDamaged ==
            \E k \in 1..Len(damagedShips) :
                ratioBelowHalf(property(damagedShips[k], "currentHP"), property(damagedShips[k], "maxHP"))
    IN  CASE type = "repair" ->
                IF Len(damagedShips) = 0 THEN {FALSE}
                ELSE {inventory["repair"] > 0 /\ (criticallyDamaged \/ Len(damagedShips) > 1)}
          [] type = "radar" ->
                IF inventory["radar"] > 0 /\ a.targetMode = "hunt" THEN BOOLEAN ELSE {FALSE}
          [] type = "extra-turn" ->
                {inventory["extra-turn"] > 0 /\ (Len(a.targetStack) > 0 \/ a.targetMode = "target")}
          [] type = "bomb" ->
                IF inventory["bomb"] <= 0 THEN {FALSE}
                ELSE IF Len(a.targetStack) > 1 THEN {TRUE}
                ELSE BOOLEAN
          [] OTHER -> {FALSE}

\* GameController.aiConsiderPowerUps: repair is never used (shouldUsePowerUp
\* compares ship.currentHP with ship.maxHP, which no ship has); radar is used
\* on a roll in hunt mode; an extra turn is queued when the AI has targets.
aiConsiderPowerUps(s) ==
    LET afterRadar ==
            {s} \cup (IF s.gs.powerUpInventory.ai["radar"] > 0 /\ s.ai.targetMode = "hunt"
                      THEN {[s EXCEPT !.gs.powerUpInventory.ai["radar"] = @ - 1]}
                      ELSE {})
        useExtraTurn(t) ==
            IF /\ t.gs.powerUpInventory.ai["extra-turn"] > 0
               /\ (Len(t.ai.targetStack) > 0 \/ t.ai.targetMode = "target")
            THEN [t EXCEPT !.gs.extraTurn = @ + 1, !.gs.powerUpInventory.ai["extra-turn"] = @ - 1]
            ELSE t
    IN  {useExtraTurn(t) : t \in afterRadar}

\* AIController.shouldUsePowerUp(gameState, 'bomb'): the answers it can give.
shouldUseBomb(s) ==
    IF s.gs.powerUpInventory.ai["bomb"] <= 0 THEN {FALSE}
    ELSE IF Len(s.ai.targetStack) > 1 THEN {TRUE}
    ELSE BOOLEAN

\* The attack of executeAITurn on targetPosition, up to the victory check.
aiAttack(s, targetPosition) ==
    LET i == findShipInRange(s.gs.aiBoard, targetPosition)
        viaBomb == executeBombAttack(s.gs.playerBoard, targetPosition)
        viaShip == executeAttack(s.gs.playerBoard, s.gs.aiBoard.ships[i], targetPosition)
        bombed == controllerProcessAttackResult(
                      [s EXCEPT !.gs.powerUpInventory.ai["bomb"] = @ - 1,
                                !.gs.playerBoard = viaBomb.board],
                      viaBomb.result, targetPosition, "ai")
        shot == IF i = 0 THEN {s}
                ELSE controllerProcessAttackResult([s EXCEPT !.gs.playerBoard = viaShip.board],
                                                   viaShip.result, targetPosition, "ai")
    IN  UNION {IF useBomb THEN bombed ELSE shot : useBomb \in shouldUseBomb(s)}

\* How many of the targets takeTurn can draw the model follows.
MaxRollTargets == 1

\* The outcomes of takeTurn that are followed: those without a target, and
\* those whose target is among the first MaxRollTargets, in scan order, of the
\* targets takeTurn can return.
followedTurns(outs) ==
    LET targets == {o.target[1] : o \in {u \in outs : u.target # Null}}
        ordered == SelectSeq(ScanOrder, LAMBDA p : p \in targets)
        kept == {ordered[k] : k \in 1..Min(Len(ordered), MaxRollTargets)}
    IN  {o \in outs : o.target = Null \/ o.target[1] \in kept}

\* GameController.executeAITurn: the callback handleEndTurn schedules.
executeAITurn(s, cacheAges) ==
    LET endTimer(t) == [t EXCEPT !.timers.endOfAITurn = @ + 1]
        afterTarget(t, o) ==
            IF o.target = Null THEN {endTimer([t EXCEPT !.ai = o.ai])}
            ELSE {IF winnerOf(u) # "null" THEN endGame(u, winnerOf(u)) ELSE endTimer(u) :
                     u \in aiAttack([t EXCEPT !.ai = o.ai], o.target[1])}
    IN  UNION {UNION {afterTarget(t, o) : o \in followedTurns(takeTurnAged(t.ai, t.gs.aiBoard, t.gs.playerBoard, cacheAges))} :
                  t \in aiConsiderPowerUps(s)}

\* The callback executeAITurn schedules at its end.
endOfAITurn(s) ==
    IF s.gs.extraTurn > 0
    THEN [s EXCEPT !.gs.extraTurn = @ - 1, !.timers.executeAITurn = @ + 1]
    ELSE [s EXCEPT !.gs.phase = "player-turn", !.ctl.isEnabled = TRUE]

\* GameController.startSetupPhase on a fresh game state: both fleets are
\* created, the AI's is placed, the placement modal is shown.
startSetupPhase(s) ==
    {[s EXCEPT !.gs.playerBoard = boardWithShips("player"),
               !.gs.aiBoard = b,
               !.ctl.currentShipIndex = 0,
               !.ctl.isVertical = TRUE,
               !.ctl.placementModal = TRUE] :
        b \in autoPlaceShips(boardWithShips("ai"), 1)}

\* PlacementManager.clearAllPlacements
clearAllPlacements(board) ==
    [board EXCEPT
        !.ships = [i \in 1..Len(board.ships) |->
                      [board.ships[i] EXCEPT !.positions = <<>>, !.hp = board.ships[i].maxHp,
                                             !.isSunk = FALSE]],
        !.cells = [p \in BoardPositions |->
                      [board.cells[p] EXCEPT !.state = "water", !.shipId = NoShipId]]]

\* GameController.handleAutoPlace: PlacementManager.autoPlaceRemainingShips
\* clears the board and places every ship at a valid random placement.
handleAutoPlace(s) ==
    {[s EXCEPT !.gs.playerBoard = b,
               !.ctl.currentShipIndex = Len(s.gs.playerBoard.ships),
               !.ctl.isVertical = TRUE] :
        b \in autoPlaceShips(clearAllPlacements(s.gs.playerBoard), 1)}

\* GameController.handleStartGame
handleStartGame(s) == [s EXCEPT !.gs.phase = "player-turn", !.ctl.placementModal = FALSE]

\* GameController.handleNewGame once the player has confirmed: a new
\* GameStateManager and PlacementManager, the mode flags cleared, and the setup
\* phase started. The AIController, the pending timers and the ControlManager
\* are the ones the controller already had.
handleNewGame(s) ==
    startSetupPhase([s EXCEPT !.gs = createInitialState,
                              !.ctl.currentShipIndex = 0,
                              !.ctl.isVertical = TRUE,
                              !.ctl.repairMode = FALSE,
                              !.ctl.radarMode = FALSE,
                              !.ctl.bombMode = FALSE,
                              !.ctl.selectedPowerUp = "null"])

\* GameController.handleEndGame once the player has confirmed: as
\* handleNewGame, a new GameStateManager and PlacementManager, the mode flags
\* cleared, and the setup phase started; nothing else is touched.
handleEndGame(s) ==
    startSetupPhase([s EXCEPT !.gs = createInitialState,
                              !.ctl.currentShipIndex = 0,
                              !.ctl.isVertical = TRUE,
                              !.ctl.repairMode = FALSE,
                              !.ctl.radarMode = FALSE,
                              !.ctl.bombMode = FALSE,
                              !.ctl.selectedPowerUp = "null"])

(* ---------------------------- Save and load --------------------------- *)
\* The age in hours past which loadSavedGame drops a save.
MaxSaveAgeHours == 24

\* The properties validateGameState requires.
requiredProperties == {"phase", "currentPlayer", "playerBoard", "aiBoard", "turnCount"}

\* validators.phase
validPhase(phase) == phase \in {"setup", "player-turn", "ai-turn", "game-over"}

\* GameStateManager.validateGameState(state) for a parsed state, given as the
\* properties it has and their values: every required property is there, the
\* phase is a known one (the boards of a parsed state that has them are
\* boards).
validateGameState(parsed) ==
    /\ requiredProperties \subseteq parsed.props
    /\ validPhase(parsed.state.phase)

\* A setState that takes whatever it is given.
setStateUnchecked(s, parsed) == [ok |-> TRUE, s |-> [s EXCEPT !.gs = parsed.state]]

\* GameStateManager.setState(newState): ok is FALSE when it throws.
setState(s, parsed) ==
    IF validateGameState(parsed)
    THEN [ok |-> TRUE, s |-> [s EXCEPT !.gs = parsed.state]]
    ELSE [ok |-> FALSE, s |-> s]

\* GameController.loadSavedGame() with the content of localStorage given:
\* kind "none" when there is no item, "garbage" when JSON.parse throws, and
\* otherwise the parsed object with its age in hours.  The result carries the
\* return value and whether clearSavedGame ran.
loadSavedGame(s, save) ==
    IF save.kind = "none" THEN [s |-> s, loaded |-> FALSE, cleared |-> FALSE]
    ELSE IF save.kind = "garbage" THEN [s |-> s, loaded |-> FALSE, cleared |-> TRUE]
    ELSE IF save.age > MaxSaveAgeHours THEN [s |-> s, loaded |-> FALSE, cleared |-> TRUE]
    ELSE LET set == setState(s, save.gameState) IN
         IF ~set.ok THEN [s |-> s, loaded |-> FALSE, cleared |-> TRUE]
         ELSE LET s1 == [set.s EXCEPT
                            !.ai.difficulty = IF save.difficulty = "none" THEN @ ELSE save.difficulty,
                            !.ctl.selectedPowerUp = save.selectedPowerUp]
              IN  [s |-> s1,
                   loaded |-> s1.gs.phase # "setup" /\ s1.gs.phase # "game-over",
                   cleared |-> FALSE]

\* GameStateManager.loadGame(saveData): the state is replaced when the data
\* parses and phase, playerBoard and aiBoard are there.
loadGame(g, save) ==
    IF /\ save.kind = "json"
       /\ {"phase", "playerBoard", "aiBoard"} \subseteq save.gameState.props
    THEN [gs |-> save.gameState.state, result |-> TRUE]
    ELSE [gs |-> g, result |-> FALSE]

\* GameController.startSetupPhase on the state that is in memory: both fleets
\* are created anew, the AI's is placed on the AI board as it is, the
\* placement modal is shown.
startSetupPhaseInMemory(s) ==
    {[s EXCEPT !.gs.playerBoard.ships = createShips("player"),
               !.gs.aiBoard = b,
               !.ctl.currentShipIndex = 0,
               !.ctl.isVertical = TRUE,
               !.ctl.placementModal = TRUE] :
        b \in autoPlaceShips([s.gs.aiBoard EXCEPT !.ships = createShips("ai")], 1)}

(* ------------------------------ SpecLoad ------------------------------ *)
\* The ages, in hours, of the saves found in localStorage.
SaveAges == {1, MaxSaveAgeHours, MaxSaveAgeHours + 1}

\* The game states found in a save: both fleets placed, in any phase, or with
\* a phase the game does not know.
SavedGames ==
    {[createInitialState EXCEPT !.phase = phase, !.playerBoard = pb, !.aiBoard = ab] :
        phase \in {"setup", "player-turn", "ai-turn", "game-over", "paused"},
        pb \in autoPlaceShips(boardWithShips("player"), 1),
        ab \in autoPlaceShips(boardWithShips("ai"), 1)}

\* The parsed game states: a saved game with some of its properties missing.
ParsedGames ==
    {[props |-> requiredProperties \ missing, state |-> g] :
        missing \in SUBSET requiredProperties, g \in SavedGames}

\* What localStorage holds under 'aircraft-carrier-save'.
Saves ==
    {[kind |-> "none"], [kind |-> "garbage"]} \cup
    {[kind |-> "json", age |-> age, gameState |-> parsed, difficulty |-> difficulty,
      selectedPowerUp |-> selected] :
        age \in SaveAges, parsed \in ParsedGames, difficulty \in {"none", "hard"},
        selected \in {"null", "repair"}}

\* After construction and before the constructor's last statement.
InitLoad ==
    /\ gs = createInitialState
    /\ ai = NewAI("medium")
    /\ ship = createShip(shipTypes[1], <<"test">>)
    /\ ctl = NewControl
    /\ timers = NoTimers
    /\ calls = 0
    /\ ach = NewAchievementManager
    /\ lastOp = NoOp

\* The constructor's last statement: this.loadSavedGame() || this.startSetupPhase()
LoadSavedGameCall ==
    /\ lastOp = NoOp
    /\ \E save \in Saves :
        LET r == loadSavedGame(Controller(gs, ai, ctl, timers), save) IN
        \E s \in (IF r.loaded THEN {r.s} ELSE startSetupPhaseInMemory(r.s)) :
            /\ gs' = s.gs
            /\ ai' = s.ai
            /\ ctl' = s.ctl
            /\ lastOp' = [op |-> "loadSavedGame", save |-> save, loaded |-> r.loaded,
                          cleared |-> r.cleared]
            /\ UNCHANGED <<ship, timers, calls, ach>>

\* GameStateManager.loadGame(saveData) on a new GameStateManager.
LoadGameCall ==
    /\ lastOp = NoOp
    /\ \E save \in {x \in Saves : x.kind # "none"} :
        LET r == loadGame(gs, save) IN
        /\ gs' = r.gs
        /\ lastOp' = [op |-> "loadGame", save |-> save, loaded |-> r.result, cleared |-> FALSE]
        /\ UNCHANGED <<ship, ai, ctl, timers, calls, ach>>

NextLoad ==
    \/ LoadSavedGameCall
    \/ LoadGameCall

SpecLoad == InitLoad /\ [][NextLoad]_vars

\* A save the claim says is rejected: unparsable, older than 24 hours, or
\* lacking phase, playerBoard or aiBoard.
rejectedSave(save, withAge) ==
    \/ save.kind = "garbage"
    \/ /\ save.kind = "json"
       /\ \/ withAge /\ save.age > 24
          \/ "phase" \notin save.gameState.props
          \/ "playerBoard" \notin save.gameState.props
          \/ "aiBoard" \notin save.gameState.props

\* A fresh game state in the setup phase, its fleets created and only the
\* AI's placed.
freshSetupState(g) ==
    /\ g.phase = "setup"
    /\ g.winner = "null"
    /\ g.extraTurn = 0
    /\ g.powerUpInventory = createInitialState.powerUpInventory
    /\ g.playerBoard = boardWithShips("player")
    /\ g.aiBoard \in autoPlaceShips(boardWithShips("ai"), 1)

\* C27: loading rejects a save that is older than 24 hours, cannot be parsed,
\* or lacks phase, playerBoard or aiBoard: the rejected save never replaces
\* the game state in memory, and the game falls back to a fresh state in the
\* setup phase.
C27_RejectedSave ==
    /\ (lastOp.op = "loadSavedGame" /\ rejectedSave(lastOp.save, TRUE)) =>
          /\ ~lastOp.loaded
          /\ freshSetupState(gs)
          /\ ai = NewAI("medium")
          /\ ctl.selectedPowerUp = "null"
    /\ (lastOp.op = "loadGame" /\ rejectedSave(lastOp.save, FALSE)) =>
          /\ ~lastOp.loaded
          /\ gs = createInitialState

\* C27 witness: a one-hour-old save of a game in the player's turn that lacks
\* only aiBoard is dropped, and the game is in a fresh setup phase.
C27_Witness ==
    /\ lastOp.op = "loadSavedGame"
    /\ lastOp.save.kind = "json"
    /\ lastOp.save.age = 1
    /\ lastOp.save.gameState.props = requiredProperties \ {"aiBoard"}
    /\ lastOp.save.gameState.state.phase = "player-turn"
    /\ lastOp.save.selectedPowerUp = "repair"
    /\ lastOp.cleared
    /\ ~lastOp.loaded
    /\ gs.phase = "setup"

(* -------------------------- SpecAchievements -------------------------- *)
\* How many incrementStat and setStat calls a behaviour makes.
MaxStatCalls == 3

\* The amounts incrementStat is called with, and the values of setStat.
StatAmounts == {1, 5, 100}
StatValues == {0, 20, 50}

\* The ids whose condition has held after some update so far.
satisfiedSoFar == IF lastOp = NoOp THEN {} ELSE lastOp.satisfied

satisfiedNow(m) ==
    {achievementIds[i] : i \in {j \in 1..Len(achievementIds) : condition(achievementIds[j], m.stats)}}

\* AchievementManager.incrementStat(statName, amount)
IncrementStatCall ==
    /\ calls < MaxStatCalls
    /\ \E statName \in statNames, amount \in StatAmounts :
        /\ ach' = incrementStat(ach, statName, amount)
        /\ lastOp' = [op |-> "incrementStat", statName |-> statName, amount |-> amount,
                      satisfied |-> satisfiedSoFar \cup satisfiedNow(ach')]
    /\ calls' = calls + 1
    /\ UNCHANGED <<ship, gs, ai, ctl, timers>>

\* AchievementManager.setStat(statName, value)
SetStatCall ==
    /\ calls < MaxStatCalls
    /\ \E statName \in statNames, value \in StatValues :
        /\ ach' = setStat(ach, statName, value)
        /\ lastOp' = [op |-> "setStat", statName |-> statName, amount |-> value,
                      satisfied |-> satisfiedSoFar \cup satisfiedNow(ach')]
    /\ calls' = calls + 1
    /\ UNCHANGED <<ship, gs, ai, ctl, timers>>

NextAchievements ==
    \/ IncrementStatCall
    \/ SetStatCall

SpecAchievements == InitLoad /\ [][NextAchievements]_vars

\* C28: each achievement is unlocked exactly once: after any sequence of
\* incrementStat and setStat calls an id is in the unlocked list if and only
\* if its condition has been true after some update, and no id is in the
\* list twice.
C28_UnlockedOnce ==
    /\ cellsOf(ach.unlockedAchievements) = satisfiedSoFar
    /\ noDuplicates(ach.unlockedAchievements)

\* C28 witness: after three updates the list holds an achievement whose
\* condition no longer holds, next to one whose condition has held twice.
C28_Witness ==
    /\ calls = 3
    /\ "speed-demon" \in cellsOf(ach.unlockedAchievements)
    /\ ~condition("speed-demon", ach.stats)
    /\ "first-win" \in cellsOf(ach.unlockedAchievements)
    /\ condition("first-win", ach.stats)
    /\ lastOp.op = "setStat"

(* -------------------------- PlacementManager -------------------------- *)
\* PlacementManager.currentShip as an index into the player's fleet, 0 for
\* null: this.ships is the whole fleet, none of it placed when
\* initializePlacement ran.
currentShip(s) ==
    IF s.ctl.currentShipIndex < Len(s.gs.playerBoard.ships) THEN s.ctl.currentShipIndex + 1 ELSE 0

\* A placement check that looks at the bounds only.
isValidPlacementBoundsOnly(board, positions) ==
    \A k \in 1..Len(positions) : isValidPosition(positions[k])

\* PlacementManager.isValidPlacement(positions)
isValidPlacement(board, positions) ==
    \A k \in 1..Len(positions) :
        /\ isValidPosition(positions[k])
        /\ board.cells[positions[k]].state = "water"

\* PlacementManager.canPlaceShip(startPosition)
canPlaceShip(s, startPosition) ==
    /\ currentShip(s) # 0
    /\ isValidPlacement(s.gs.playerBoard,
                        calculateShipPositions(startPosition,
                                               s.gs.playerBoard.ships[currentShip(s)].length,
                                               s.ctl.isVertical))

\* PlacementManager.selectNextShip
selectNextShip(s) ==
    IF s.ctl.currentShipIndex < Len(s.gs.playerBoard.ships)
    THEN [s EXCEPT !.ctl.isVertical = TRUE]
    ELSE s

\* PlacementManager.placeCurrentShip(startPosition)
placeCurrentShip(s, startPosition) ==
    IF currentShip(s) = 0 THEN s
    ELSE selectNextShip(
            [s EXCEPT !.gs.playerBoard = placeShip(@, currentShip(s), startPosition, s.ctl.isVertical),
                      !.ctl.currentShipIndex = @ + 1])

\* PlacementManager.handlePlacementClick on a cell of the placement board.
handlePlacementClick(s, position) ==
    IF currentShip(s) = 0 THEN s
    ELSE IF canPlaceShip(s, position) THEN placeCurrentShip(s, position)
    ELSE s

\* PlacementManager.rotateCurrentShip
rotateCurrentShip(s) == [s EXCEPT !.ctl.isVertical = ~@]

\* GameController.handleClearAll: PlacementManager.clearAllPlacements, which
\* ends with currentShipIndex = 0 and selectNextShip.
handleClearAll(s) ==
    selectNextShip([s EXCEPT !.gs.playerBoard = clearAllPlacements(@),
                             !.ctl.currentShipIndex = 0])

(* --------------------------- SpecPlacement ---------------------------- *)
\* The setup phase: the fleets created, the AI's fleet auto-placed, the
\* PlacementManager initialised with the player's fleet.
InitPlacement ==
    /\ \E t \in startSetupPhase(Controller(createInitialState, NewAI("medium"), NewControl, NoTimers)) :
          gs = t.gs /\ ai = t.ai /\ ctl = t.ctl /\ timers = t.timers
    /\ ship = createShip(shipTypes[1], <<"test">>)
    /\ calls = 0
    /\ ach = NewAchievementManager
    /\ lastOp = NoOp

\* The coordinates placeShip is called with: one step off the board on either
\* side, and everything between.
ProbeCoordinates == (0 - 1)..BoardSize

\* Some cell of the ship would lie outside the board.
liesOutside(s, startPosition, isVertical) ==
    \E k \in 1..s.length :
        ~isValidPosition(calculateShipPositions(startPosition, s.length, isVertical)[k])

\* Some cell of the ship would lie on a cell of the board that is not water.
overlaps(board, s, startPosition, isVertical) ==
    \E k \in 1..s.length :
        LET p == calculateShipPositions(startPosition, s.length, isVertical)[k]
        IN  isValidPosition(p) /\ board.cells[p].state # "water"

\* gameStateManager.placeShip(board, ship, startPosition, isVertical) on a ship
\* of the player's fleet that is not placed yet, with any start position.  When
\* isValidShipPlacement throws, the exception leaves placeShip before anything
\* is assigned.
PlaceShipCall ==
    \E i \in 1..Len(gs.playerBoard.ships), x \in ProbeCoordinates, y \in ProbeCoordinates,
       isVertical \in BOOLEAN :
        LET s == gs.playerBoard.ships[i]
            valid == isValidShipPlacement(gs.playerBoard, s, Pos(x, y), isVertical)
        IN  /\ Len(s.positions) = 0
            /\ gs' = IF valid = "true"
                     THEN [gs EXCEPT !.playerBoard = placeShip(@, i, Pos(x, y), isVertical)]
                     ELSE gs
            /\ lastOp' = [op |-> "placeShip", result |-> valid,
                          outside |-> liesOutside(s, Pos(x, y), isVertical),
                          overlap |-> overlaps(gs.playerBoard, s, Pos(x, y), isVertical),
                          changed |-> valid = "true"]
            /\ UNCHANGED <<ship, ai, ctl, timers, calls, ach>>

\* The handler has run and left the controller as t.
PlacementStep(t, op) ==
    /\ gs' = t.gs
    /\ ctl' = t.ctl
    /\ lastOp' = [op |-> op, result |-> IF t.gs = gs THEN "false" ELSE "true",
                  outside |-> FALSE, overlap |-> FALSE, changed |-> t.gs # gs]
    /\ UNCHANGED <<ship, ai, timers, calls, ach>>

\* A click on a cell of the placement board, as the ControlManager hands it to
\* GameController.handleShipPlace.
ShipPlaceClick ==
    \E position \in BoardPositions :
        /\ ctl.placementModal /\ ctl.isEnabled
        /\ PlacementStep(handleShipPlace(Controller(gs, ai, ctl, timers), position), "handleShipPlace")

\* The same click as the PlacementManager's own document listener handles it.
PlacementClick ==
    \E position \in BoardPositions :
        /\ ctl.placementModal
        /\ PlacementStep(handlePlacementClick(Controller(gs, ai, ctl, timers), position), "handlePlacementClick")

\* The R key or the Rotate button.
RotateClick ==
    /\ ctl.placementModal
    /\ PlacementStep(rotateCurrentShip(Controller(gs, ai, ctl, timers)), "rotateCurrentShip")

\* The Clear All button.
ClearAllClick ==
    /\ ctl.placementModal /\ ctl.isEnabled
    /\ PlacementStep(handleClearAll(Controller(gs, ai, ctl, timers)), "handleClearAll")

\* The Auto Place button.
AutoPlaceClick ==
    /\ ctl.placementModal /\ ctl.isEnabled
    /\ \E t \in handleAutoPlace(Controller(gs, ai, ctl, timers)) : PlacementStep(t, "handleAutoPlace")

NextPlacement ==
    \/ PlaceShipCall
    \/ ShipPlaceClick
    \/ PlacementClick
    \/ RotateClick
    \/ ClearAllClick
    \/ AutoPlaceClick

SpecPlacement == InitPlacement /\ [][NextPlacement]_vars

\* C15: placeShip returns false, without throwing and without changing the
\* board or the ship, for every start position and orientation in which some
\* cell of the ship would lie outside the board or on a cell that is not
\* water.
C15_InvalidPlacementReturnsFalse ==
    (lastOp.op = "placeShip" /\ (lastOp.outside \/ lastOp.overlap)) =>
        /\ lastOp.result = "false"
        /\ ~lastOp.changed

\* C15 witness: a placeShip call for a ship with a cell outside the board and
\* no cell on an occupied cell, which threw instead of returning false.
C15_Witness ==
    /\ lastOp.op = "placeShip"
    /\ lastOp.outside /\ ~lastOp.overlap
    /\ lastOp.result = "throws"
    /\ ~lastOp.changed

\* The positions of a placed ship: exactly `length` of them, all on the board,
\* one after the other down a column or along a row.
wellPlaced(s) ==
    /\ Len(s.positions) = s.length
    /\ \A k \in 1..Len(s.positions) : isValidPosition(s.positions[k])
    /\ \/ \A k \in 1..Len(s.positions) :
              /\ s.positions[k].x = s.positions[1].x
              /\ s.positions[k].y = s.positions[1].y + (k - 1)
       \/ \A k \in 1..Len(s.positions) :
              /\ s.positions[k].y = s.positions[1].y
              /\ s.positions[k].x = s.positions[1].x + (k - 1)

\* The placed ships of a board are well placed, no two of them share a
\* position, and each of their cells is a ship cell carrying the ship's id.
fleetWellPlaced(board) ==
    /\ \A i \in 1..Len(board.ships) :
          Len(board.ships[i].positions) > 0 =>
              /\ wellPlaced(board.ships[i])
              /\ \A k \in 1..Len(board.ships[i].positions) :
                    /\ board.cells[board.ships[i].positions[k]].state = "ship"
                    /\ board.cells[board.ships[i].positions[k]].shipId = board.ships[i].id
    /\ \A i, j \in 1..Len(board.ships) :
          i # j => {board.ships[i].positions[k] : k \in 1..Len(board.ships[i].positions)}
                   \cap {board.ships[j].positions[k] : k \in 1..Len(board.ships[j].positions)} = {}

\* C16: after any sequence of placements, by clicks handled by the controller
\* or by the PlacementManager, by placeShip calls, by Auto Place or by
\* autoPlaceShips, every placed ship has exactly `length` positions, inside
\* the board, contiguous on one row or one column, and no cell is occupied by
\* two ships.
C16_PlacedShipsWellFormed ==
    fleetWellPlaced(gs.playerBoard) /\ fleetWellPlaced(gs.aiBoard)

\* C16 witness: the whole fleet of the player placed by hand, one ship along a
\* row (by the PlacementManager, after a rotation) and one down a column.
C16_Witness ==
    /\ lastOp.op \in {"handleShipPlace", "handlePlacementClick"}
    /\ lastOp.changed
    /\ isPlaced(gs.playerBoard)
    /\ \E i, j \in 1..Len(gs.playerBoard.ships) :
          /\ gs.playerBoard.ships[i].isVertical
          /\ ~gs.playerBoard.ships[j].isVertical

(* ------------------------------ SpecGrid ------------------------------ *)
\* The positions of a ship, as a set.
positionsOf(s) == {s.positions[k] : k \in 1..Len(s.positions)}

\* gameStateManager.placeShip(board, ship, startPosition, isVertical) on any
\* ship of the player's fleet, placed already or not, at a start position on
\* the board.
GridPlaceShipCall ==
    /\ HarnessCall
    /\ \E i \in 1..Len(gs.playerBoard.ships), startPosition \in BoardPositions, isVertical \in BOOLEAN :
        LET s == gs.playerBoard.ships[i]
            valid == isValidShipPlacement(gs.playerBoard, s, startPosition, isVertical)
        IN  /\ gs' = IF valid = "true"
                     THEN [gs EXCEPT !.playerBoard = placeShip(@, i, startPosition, isVertical)]
                     ELSE gs
            /\ lastOp' = [op |-> "placeShip", result |-> valid, ship |-> i,
                          before |-> positionsOf(s)]
            /\ UNCHANGED <<ship, ai, ctl, timers>>

\* ShipManager.rotateShip(ship) on any ship of the player's fleet.
RotateShipCall ==
    /\ HarnessCall
    /\ \E i \in 1..Len(gs.playerBoard.ships) :
        /\ gs' = [gs EXCEPT !.playerBoard.ships[i] = rotateShip(@)]
        /\ lastOp' = [op |-> "rotateShip", result |-> "true", ship |-> i,
                      before |-> positionsOf(gs.playerBoard.ships[i])]
        /\ UNCHANGED <<ship, ai, ctl, timers>>

\* placementManager.clearAllPlacements()
ClearAllPlacementsCall ==
    /\ HarnessCall
    /\ gs' = [gs EXCEPT !.playerBoard = clearAllPlacements(@)]
    /\ lastOp' = [op |-> "clearAllPlacements", result |-> "true", ship |-> 0, before |-> {}]
    /\ UNCHANGED <<ship, ai, ctl, timers>>

\* executeAttack(attackingShip, target, 'player') with the AI ship in range.
GridAttackCall ==
    /\ HarnessCall
    /\ \E target \in BoardPositions :
        /\ findShipInRange(gs.aiBoard, target) # 0
        /\ LET r == executeAttack(gs.playerBoard, gs.aiBoard.ships[findShipInRange(gs.aiBoard, target)], target)
           IN  /\ gs' = [gs EXCEPT !.playerBoard = r.board]
               /\ lastOp' = [op |-> "executeAttack", result |-> IF r.result.sunk THEN "sunk" ELSE "true",
                             ship |-> 0, before |-> {}]
        /\ UNCHANGED <<ship, ai, ctl, timers>>

NextGrid ==
    \/ GridPlaceShipCall
    \/ RotateShipCall
    \/ ClearAllPlacementsCall
    \/ GridAttackCall

\* The setup phase, the player's fleet not placed yet, and any sequence of
\* placements, rotations, clearings and attacks on the player's board.
SpecGrid == InitPlacement /\ [][NextGrid]_vars

\* The cell grid and the ship list of a board agree: a ship cell carries the
\* id of a ship of the board lying on it, and every position of a ship is a
\* cell of the board carrying the ship's id.
gridConsistent(board) ==
    /\ \A p \in BoardPositions :
          board.cells[p].state = "ship" =>
              \E i \in 1..Len(board.ships) :
                  board.ships[i].id = board.cells[p].shipId /\ p \in positionsOf(board.ships[i])
    /\ \A i \in 1..Len(board.ships) : \A p \in positionsOf(board.ships[i]) :
          isValidPosition(p) /\ board.cells[p].shipId = board.ships[i].id

\* C34: in every reachable state the cell grid and the ship list of either
\* board agree, after any sequence of placements (of a ship not placed or
\* placed already), rotations, clearings, attacks and sinkings.
C34_GridConsistent ==
    gridConsistent(gs.playerBoard) /\ gridConsistent(gs.aiBoard)

\* C34, the failing case: placeShip has moved a ship that was placed already,
\* and a cell the ship has left is still a ship cell carrying its id.
C34_Witness ==
    /\ lastOp.op = "placeShip"
    /\ lastOp.result = "true"
    /\ lastOp.before # {}
    /\ \E p \in lastOp.before :
          /\ p \notin positionsOf(gs.playerBoard.ships[lastOp.ship])
          /\ gs.playerBoard.cells[p].state = "ship"
          /\ gs.playerBoard.cells[p].shipId = gs.playerBoard.ships[lastOp.ship].id

(* ----------------------------- SpecDecide ----------------------------- *)
\* The inventories the AI starts the harness with: nothing, or one power-up
\* of each type.
DecideInventories == {[type \in PowerUpTypeSet |-> n] : n \in 0..1}

\* Both fleets auto-placed, a new AIController, the AI holding nothing or one
\* power-up of each type.
InitDecide ==
    /\ \E pb \in autoPlaceShips(boardWithShips("player"), 1), ab \in autoPlaceShips(boardWithShips("ai"), 1),
          inventory \in DecideInventories :
          gs = [createInitialState EXCEPT !.playerBoard = pb, !.aiBoard = ab,
                                          !.powerUpInventory.ai = inventory]
    /\ ai = NewAI("medium")
    /\ ship = createShip(shipTypes[1], <<"test">>)
    /\ ctl = NewControl
    /\ timers = NoTimers
    /\ calls = 0
    /\ ach = NewAchievementManager
    /\ lastOp = NoOp

\* executeAttack(attackingShip, target, 'ai') with the player's ship in range,
\* on a cell of an AI ship.
DecideAttackCall ==
    /\ HarnessCall
    /\ \E target \in BoardPositions :
        /\ gs.aiBoard.cells[target].state = "ship"
        /\ findShipInRange(gs.playerBoard, target) # 0
        /\ LET r == executeAttack(gs.aiBoard, gs.playerBoard.ships[findShipInRange(gs.playerBoard, target)],
                                  target)
           IN  /\ gs' = [gs EXCEPT !.aiBoard = r.board]
               /\ lastOp' = [op |-> "executeAttack", hit |-> r.result.hit, sunk |-> r.result.sunk]
        /\ UNCHANGED <<ship, ai, ctl, timers>>

\* A ship is damaged: afloat with less than its full hp.
damaged(s) == ~s.isSunk /\ s.hp < s.maxHp

\* this.aiController.shouldUsePowerUp(gameState, type)
ShouldUsePowerUpCall ==
    \E type \in PowerUpTypeSet : \E result \in shouldUsePowerUp(ai, gs, type) :
        /\ lastOp' = [op |-> "shouldUsePowerUp", type |-> type, result |-> result]
        /\ UNCHANGED <<ship, gs, ai, ctl, timers, calls, ach>>

\* this.aiConsiderPowerUps(gameState)
AiConsiderPowerUpsCall ==
    \E t \in aiConsiderPowerUps(Controller(gs, ai, ctl, timers)) :
        /\ gs' = t.gs
        /\ lastOp' = [op |-> "aiConsiderPowerUps",
                      repaired |-> t.gs.aiBoard # gs.aiBoard
                                      \/ t.gs.powerUpInventory.ai["repair"] # gs.powerUpInventory.ai["repair"],
                      queued |-> t.gs.extraTurn - gs.extraTurn]
        /\ UNCHANGED <<ship, ai, ctl, timers, calls, ach>>

NextDecide ==
    \/ ProcessAttackResultCall
    \/ TakeTurnCall
    \/ DecideAttackCall
    \/ ShouldUsePowerUpCall
    \/ AiConsiderPowerUpsCall

SpecDecide == InitDecide /\ [][NextDecide]_vars

\* The ships of the AI's fleet that are damaged.
damagedAIShips == {i \in 1..Len(gs.aiBoard.ships) : damaged(gs.aiBoard.ships[i])}

\* The repair rule: the AI holds a kit, and some damaged ship of its fleet is
\* below half of its max hp or two of them are damaged.
repairIsDue ==
    /\ gs.powerUpInventory.ai["repair"] > 0
    /\ \/ \E i \in damagedAIShips : 2 * gs.aiBoard.ships[i].hp < gs.aiBoard.ships[i].maxHp
       \/ Cardinality(damagedAIShips) >= 2

\* C35: the AI decides to use a repair kit, and aiConsiderPowerUps uses it,
\* when it holds one and some afloat ship of its fleet is below half of its
\* max hp or at least two are damaged; with no ship damaged it never does.
C35_RepairDecision ==
    /\ (lastOp.op = "shouldUsePowerUp" /\ lastOp.type = "repair") =>
          /\ repairIsDue => lastOp.result
          /\ damagedAIShips = {} => ~lastOp.result
    /\ lastOp.op = "aiConsiderPowerUps" => (damagedAIShips = {} => ~lastOp.repaired)

\* C35, the failing case: the AI holds a repair kit, two of its ships are
\* damaged, one of them below half of its hp, and the decision is no.
C35_Witness ==
    /\ lastOp.op = "shouldUsePowerUp"
    /\ lastOp.type = "repair"
    /\ ~lastOp.result
    /\ gs.powerUpInventory.ai["repair"] > 0
    /\ Cardinality(damagedAIShips) >= 2
    /\ \E i \in damagedAIShips : 2 * gs.aiBoard.ships[i].hp < gs.aiBoard.ships[i].maxHp

\* C36: the AI decides to use an extra turn exactly when it holds one and its
\* target stack is not empty, and aiConsiderPowerUps queues no extra turn
\* while the stack is empty.
C36_ExtraTurnDecision ==
    /\ (lastOp.op = "shouldUsePowerUp" /\ lastOp.type = "extra-turn") =>
          (lastOp.result <=> (gs.powerUpInventory.ai["extra-turn"] > 0 /\ ai.targetStack # <<>>))
    /\ (lastOp.op = "aiConsiderPowerUps" /\ ai.targetStack = <<>>) => lastOp.queued = 0

\* C36, the failing case: the turns of the AI have emptied its stack and left
\* it in target mode, and aiConsiderPowerUps queues an extra turn.
C36_Witness ==
    /\ lastOp.op = "aiConsiderPowerUps"
    /\ ai.targetStack = <<>>
    /\ ai.targetMode = "target"
    /\ lastOp.queued = 1
    /\ gs.extraTurn = 1
    /\ gs.powerUpInventory.ai["extra-turn"] = 0

(* ---------------------------- SpecPowerUp ----------------------------- *)
\* The largest count of one power-up type the harness lets an inventory hold.
MaxHeld == 2

\* The cells of the player's board on which the harness spawns power-ups.
PowerUpCells == {Pos(boardSize.width - 1, 0), Pos(boardSize.width - 1, boardSize.height - 1)}

\* Both fleets auto-placed, empty inventories, no power-up on a board.
InitPowerUp ==
    /\ \E pb \in autoPlaceShips(boardWithShips("player"), 1), ab \in autoPlaceShips(boardWithShips("ai"), 1) :
          gs = [createInitialState EXCEPT !.playerBoard = pb, !.aiBoard = ab]
    /\ ai = NewAI("medium")
    /\ ship = createShip(shipTypes[1], <<"test">>)
    /\ ctl = NewControl
    /\ timers = NoTimers
    /\ calls = 0
    /\ ach = NewAchievementManager
    /\ lastOp = NoOp

\* PowerUpManager.spawnPowerUpAtPosition(gameState, 'player', position), with
\* the type spawnRandomPowerUp draws.
SpawnPowerUpCall ==
    \E position \in PowerUpCells, type \in PowerUpTypeSet :
        /\ gs' = [gs EXCEPT !.playerBoard = spawnPowerUpAtPosition(@, position, type)]
        /\ lastOp' = [op |-> "spawnPowerUpAtPosition", player |-> "player", position |-> position,
                      type |-> type, ok |-> gs.playerBoard.cells[position].state = "water"]
        /\ UNCHANGED <<ship, ai, ctl, timers, calls, ach>>

\* The cells the harness collects from: those it spawns on, and one on which
\* no power-up ever lies.
CollectCells == PowerUpCells \cup {Pos(0, 0)}

\* PowerUpManager.collectPowerUp(gameState, player, position)
CollectPowerUpCall ==
    \E player \in Owners, position \in CollectCells :
        LET r == collectPowerUp(gs, player, position)
        IN  /\ \A type \in PowerUpTypeSet : r.gs.powerUpInventory[player][type] <= MaxHeld
            /\ gs' = r.gs
            /\ lastOp' = [op |-> "collectPowerUp", player |-> player, position |-> position,
                          type |-> "none", ok |-> r.ok]
            /\ UNCHANGED <<ship, ai, ctl, timers, calls, ach>>

\* PowerUpManager.usePowerUp(gameState, player, type)
UsePowerUpCall ==
    \E player \in Owners, type \in PowerUpTypeSet :
        LET r == usePowerUp(gs, player, type)
        IN  /\ gs' = r.gs
            /\ lastOp' = [op |-> "PowerUpManager.usePowerUp", player |-> player,
                          position |-> Pos(0, 0), type |-> type, ok |-> r.ok]
            /\ UNCHANGED <<ship, ai, ctl, timers, calls, ach>>

\* gameStateManager.usePowerUp(player, type)
StateUsePowerUpCall ==
    \E player \in {"player"}, type \in PowerUpTypeSet :
        LET r == stateUsePowerUp(gs, player, type)
        IN  /\ gs' = r.gs
            /\ lastOp' = [op |-> "GameStateManager.usePowerUp", player |-> player,
                          position |-> Pos(0, 0), type |-> type, ok |-> r.ok]
            /\ UNCHANGED <<ship, ai, ctl, timers, calls, ach>>

NextPowerUp ==
    \/ SpawnPowerUpCall
    \/ CollectPowerUpCall
    \/ UsePowerUpCall
    \/ StateUsePowerUpCall

SpecPowerUp == InitPowerUp /\ [][NextPowerUp]_vars

\* The power-ups lying on a board, as a set.
powerUpSet(board) == {board.powerUps[k] : k \in 1..Len(board.powerUps)}

\* C17: collectPowerUp(player, pos) on a cell that holds a power-up returns
\* true, takes that power-up (and no other) off the board's powerUps list,
\* returns the cell to water with no powerUpType and adds exactly one to the
\* player's count of that type, leaving every other count, cell and ship as
\* it was; when no power-up is at pos it returns false and changes nothing.
C17_CollectPowerUp ==
    [][lastOp'.op = "collectPowerUp" =>
          LET player == lastOp'.player
              pos == lastOp'.position
              b == boardOf(gs, player)
              b2 == boardOf(gs', player)
              type == b.cells[pos].powerUpType
          IN  IF b.cells[pos].state = "power-up"
              THEN /\ lastOp'.ok
                   /\ Len(b2.powerUps) = Len(b.powerUps) - 1
                   /\ powerUpSet(b2) = powerUpSet(b) \ {[type |-> type, position |-> pos]}
                   /\ b2.cells[pos].state = "water"
                   /\ b2.cells[pos].powerUpType = "none"
                   /\ \A p \in BoardPositions \ {pos} : b2.cells[p] = b.cells[p]
                   /\ b2.ships = b.ships
                   /\ gs'.powerUpInventory =
                          [gs.powerUpInventory EXCEPT ![player][type] = @ + 1]
                   /\ \A o \in Owners \ {player} : boardOf(gs', o) = boardOf(gs, o)
              ELSE ~lastOp'.ok /\ gs' = gs]_vars

\* C17 witness: a power-up collected by the player while another one lies on
\* the board and the player already holds one of the collected type: the count
\* is 2, the cell is water again and the other power-up is still there.
C17_Witness ==
    /\ lastOp.op = "collectPowerUp"
    /\ lastOp.ok
    /\ gs.playerBoard.cells[lastOp.position].state = "water"
    /\ Len(gs.playerBoard.powerUps) = 1
    /\ \E type \in PowerUpTypeSet : gs.powerUpInventory.player[type] = 2

\* C18: using a power-up whose count is 0 returns false and leaves every count
\* and both boards unchanged; using one whose count is positive returns true
\* and takes exactly one off that count, and off no other.  This holds for
\* PowerUpManager.usePowerUp and for GameStateManager.usePowerUp.
C18_UsePowerUp ==
    [][lastOp'.op \in {"PowerUpManager.usePowerUp", "GameStateManager.usePowerUp"} =>
          LET player == lastOp'.player
              type == lastOp'.type
          IN  IF gs.powerUpInventory[player][type] = 0
              THEN /\ ~lastOp'.ok
                   /\ gs'.powerUpInventory = gs.powerUpInventory
                   /\ gs'.playerBoard = gs.playerBoard
                   /\ gs'.aiBoard = gs.aiBoard
              ELSE /\ lastOp'.ok
                   /\ gs'.powerUpInventory =
                          [gs.powerUpInventory EXCEPT ![player][type] = @ - 1]]_vars

\* C18 witness: PowerUpManager.usePowerUp has just refused a type of which
\* the player holds none, while the player holds two of another type.
C18_Witness ==
    /\ lastOp.op = "PowerUpManager.usePowerUp"
    /\ lastOp.player = "player"
    /\ ~lastOp.ok
    /\ gs.powerUpInventory.player[lastOp.type] = 0
    /\ \E type \in PowerUpTypeSet : gs.powerUpInventory.player[type] = 2

(* ----------------------- SpecAI: the whole harness --------------------- *)
\* The player starts a new game (New Game button or menu entry, confirmed).
NewGameCall ==
    /\ HarnessCall
    /\ \E t \in handleNewGame(Controller(gs, ai, ctl, timers)) :
        /\ gs' = t.gs
        /\ ai' = t.ai
        /\ ctl' = t.ctl
        /\ timers' = t.timers
        /\ lastOp' = [op |-> "handleNewGame", modeBefore |-> ai.targetMode]
    /\ UNCHANGED ship

NextAI ==
    \/ TakeTurnCall
    \/ AttackTargetCall
    \/ ProcessAttackResultCall
    \/ ResetCall
    \/ BombCall
    \/ NewGameCall

SpecAI == InitAI /\ [][NextAI]_vars

\* C11: after the player starts a new game, from any AI state, the AI
\* controller is as AIController.reset() leaves it: in hunt mode, with an empty
\* target stack and no last hit.
C11_NewGameResetsAI ==
    lastOp.op = "handleNewGame" =>
        /\ ai.targetMode = "hunt"
        /\ ai.targetStack = <<>>
        /\ ai.lastHitPosition = Null
        /\ ai = reset(ai)

\* C11 witness: a new game started while the AI was in target mode with
\* targets on its stack; the new game has a fresh game state and the AI is
\* still in target mode.
C11_Witness ==
    /\ lastOp.op = "handleNewGame"
    /\ lastOp.modeBefore = "target"
    /\ gs.phase = "setup"
    /\ gs.playerBoard = boardWithShips("player")
    /\ ai.targetMode = "target"
    /\ ai.targetStack # <<>>

(* -------------------------------- Spec -------------------------------- *)
\* The cells of the AI's board the player clicks or taps.
AIBoardClicks == {Pos(0, 0), Pos(boardSize.width - 1, boardSize.height - 1)}

\* The cells of the player's own board the player clicks or taps.
PlayerBoardClicks == {Pos(boardSize.width - 1, 0)}

ClickPositions(owner) == IF owner = "ai" THEN AIBoardClicks ELSE PlayerBoardClicks

\* The controller as the variables hold it.
Current == Controller(gs, ai, ctl, timers)

\* The counters stay within the bounds.
Bounded(t) ==
    /\ t.gs.extraTurn <= MaxExtraTurn
    /\ \A o \in Owners, type \in PowerUpTypeSet : t.gs.powerUpInventory[o][type] <= MaxInventory
    /\ t.timers.executeAITurn <= MaxPending
    /\ t.timers.endOfAITurn <= MaxPending

\* The handler named op has run and left the controller as t.
Commit(t, op) ==
    /\ Bounded(t)
    /\ t # Current
    /\ gs' = t.gs
    /\ ai' = t.ai
    /\ ctl' = t.ctl
    /\ timers' = t.timers
    /\ lastOp' = [op |-> op, attacker |-> t.trace.attacker, endTurn |-> t.trace.endTurn,
                  endGame |-> t.trace.endGame,
                  extraBefore |-> IF t.trace.endTurn \/ op = "endOfAITurn" THEN gs.extraTurn ELSE 0,
                  bombModeBefore |-> ctl.bombMode]
    /\ UNCHANGED ship

\* GameController's constructor: no saved game, so startSetupPhase runs.
Init ==
    /\ \E t \in startSetupPhase(Controller(createInitialState, NewAI("medium"), NewControl, NoTimers)) :
          gs = t.gs /\ ai = t.ai /\ ctl = t.ctl /\ timers = t.timers
    /\ ship = createShip(shipTypes[1], <<"test">>)
    /\ calls = 0
    /\ ach = NewAchievementManager
    /\ lastOp = [op |-> "none", attacker |-> "none", endTurn |-> FALSE, endGame |-> FALSE,
                 extraBefore |-> 0, bombModeBefore |-> FALSE]

\* The Auto Place button of the placement modal.
HandleAutoPlace ==
    /\ ctl.placementModal /\ ctl.isEnabled
    /\ \E t \in handleAutoPlace(Current) : Commit(t, "autoPlace")
    /\ UNCHANGED <<calls, ach>>

\* The Start Game button of the placement modal, enabled once no ship is
\* left to place.
HandleStartGame ==
    /\ ctl.placementModal /\ ctl.isEnabled
    /\ isPlaced(gs.playerBoard)
    /\ Commit(handleStartGame(Current), "startGame")
    /\ UNCHANGED <<calls, ach>>

\* A click (ControlManager.handleBoardClick, only while enabled) or a tap
\* (handleSingleTap, always) on a board cell.
CellClick ==
    \E owner \in Owners, touch \in BOOLEAN :
        \E position \in ClickPositions(owner) :
            /\ touch \/ ctl.isEnabled
            /\ \E t \in handleCellClick(Current, position, owner) : Commit(t, "cellClick")
            /\ UNCHANGED <<calls, ach>>

\* A power-up button: UIRenderer.renderPowerUps leaves it enabled only in the
\* player's turn with a positive count, and never for repair.
PowerUpUse ==
    \E type \in PowerUpTypeSet \ {"repair"} :
        /\ ctl.isEnabled
        /\ gs.phase = "player-turn"
        /\ gs.powerUpInventory.player[type] > 0
        /\ Commit(handlePowerUpUse(Current, type), "powerUpUse")
        /\ UNCHANGED <<calls, ach>>

\* The End Turn button.
EndTurnClick ==
    /\ ctl.isEnabled
    /\ Commit(handleEndTurn(Current), "endTurn")
    /\ UNCHANGED <<calls, ach>>

\* The hunt pick cached by an earlier executeAITurn is never younger than a
\* second here: the callbacks of the one chain of timers are 1.5 s apart.
CacheAges == {FALSE}

\* The timer handleEndTurn and the end-of-turn callback set fires.
TimerExecuteAITurn ==
    /\ timers.executeAITurn > 0
    /\ \E t \in executeAITurn([Current EXCEPT !.timers.executeAITurn = @ - 1], CacheAges) :
          Commit(t, "executeAITurn")
    /\ UNCHANGED <<calls, ach>>

\* The timer executeAITurn sets at its end fires.
TimerEndOfAITurn ==
    /\ timers.endOfAITurn > 0
    /\ Commit(endOfAITurn([Current EXCEPT !.timers.endOfAITurn = @ - 1]), "endOfAITurn")
    /\ UNCHANGED <<calls, ach>>

Next ==
    \/ HandleAutoPlace
    \/ HandleStartGame
    \/ CellClick
    \/ PowerUpUse
    \/ EndTurnClick
    \/ TimerExecuteAITurn
    \/ TimerEndOfAITurn

Spec == Init /\ [][Next]_vars

\* C37: a click or tap changes the AI's board (a normal attack or a bomb) or
\* spends a radar sweep only while the phase is player-turn, whatever clicks,
\* taps, power-up selections, end-turn requests and timer callbacks came
\* before.
C37_PlayerActsInOwnTurn ==
    [][(/\ lastOp'.op = "cellClick"
        /\ \/ gs'.aiBoard # gs.aiBoard
           \/ gs'.powerUpInventory.player["radar"] < gs.powerUpInventory.player["radar"])
       => gs.phase = "player-turn"]_vars

\* C37, the failing case: a bomb selected in the player's turn has been dropped
\* on the AI's board by a click handled during the AI's turn.
C37_Witness ==
    /\ lastOp.op = "cellClick"
    /\ lastOp.attacker = "player"
    /\ ~lastOp.endTurn
    /\ gs.phase = "ai-turn"
    /\ ~ctl.bombMode
    /\ \E p \in BoardPositions : gs.aiBoard.cells[p].state \in {"hit", "miss", "sunk"}

(* ------------------------------ SpecTurn ------------------------------ *)
\* The AI takes at most this many turns in a run.
MaxTurns == 2

\* The attack of an AI turn: aiConsiderPowerUps, takeTurn and, when takeTurn
\* returns a target, the bomb or the shot of executeAITurn with the report to
\* the AI.
AiTurnCall ==
    /\ calls < MaxTurns
    /\ calls' = calls + 1
    /\ UNCHANGED ach
    /\ \E t \in aiConsiderPowerUps(Controller(gs, ai, ctl, timers)) :
        \E o \in takeTurn(t.ai, t.gs.aiBoard, t.gs.playerBoard) :
            /\ o.target # Null
            /\ \E u \in aiAttack([t EXCEPT !.ai = o.ai], o.target[1]) :
                /\ Bounded(u)
                /\ gs' = u.gs
                /\ ai' = u.ai
                /\ lastOp' = [op |-> "aiTurn", position |-> o.target[1],
                              type |-> gs.playerBoard.cells[o.target[1]].state,
                              player |-> "ai", ok |-> u.gs.playerBoard # gs.playerBoard]
            /\ UNCHANGED <<ship, ctl, timers>>

NextTurn ==
    \/ SpawnPowerUpCall
    \/ AiTurnCall

\* Both fleets placed; power-ups appear on the player's board, as they do when
\* the player hits, and the AI takes its turns.
SpecTurn == InitPowerUp /\ [][NextTurn]_vars

\* C38: after an AI turn in which takeTurn has returned a target, the target's
\* cell of the player's board is hit, miss or sunk, and so is no valid target
\* of a later turn.
C38_TurnResolvesTarget ==
    lastOp.op = "aiTurn" =>
        /\ gs.playerBoard.cells[lastOp.position].state \in {"hit", "miss", "sunk"}
        /\ ~isValidTarget(gs.playerBoard, lastOp.position, Null)

\* C38, the failing case: the AI has shot at a cell of the player's board on
\* which a power-up lies; the board is as it was and the cell is still a valid
\* target.
C38_Witness ==
    /\ lastOp.op = "aiTurn"
    /\ lastOp.type = "power-up"
    /\ ~lastOp.ok
    /\ gs.playerBoard.cells[lastOp.position].state = "power-up"
    /\ isValidTarget(gs.playerBoard, lastOp.position, Null)

(* ---------------------------- SpecInventory --------------------------- *)
\* How many power-ups of the types the game's own spawn roll is not followed
\* with are handed out in a run, as the game starts.
MaxGains == 1

\* The type handed out: the radar sweep, the one type that is spent by a
\* handler and that SpawnTypes leaves out.
GainTypes == {"radar"}

\* The spawn roll of processAttackResult for the player, with a type of
\* GainTypes: the power-up appears on a water cell of the player's board.
PlayerSpawnCall ==
    /\ calls < MaxGains
    /\ lastOp.op = "startGame"
    /\ \E position \in PlayerBoardClicks, type \in GainTypes :
        /\ gs.playerBoard.cells[position].state = "water"
        /\ gs' = [gs EXCEPT !.playerBoard = spawnPowerUpAtPosition(@, position, type)]
    /\ calls' = calls + 1
    /\ lastOp' = [op |-> "spawn", attacker |-> "none", endTurn |-> FALSE, endGame |-> FALSE,
                  extraBefore |-> 0, bombModeBefore |-> ctl.bombMode]
    /\ UNCHANGED <<ship, ai, ctl, timers, ach>>

\* The spawn roll of processAttackResult for the AI, with a type of GainTypes:
\* the count of the AI's inventory goes up by one.
AIGainCall ==
    /\ calls < MaxGains
    /\ lastOp.op = "startGame"
    /\ \E type \in GainTypes :
        /\ gs.powerUpInventory.ai[type] < MaxInventory
        /\ gs' = [gs EXCEPT !.powerUpInventory.ai[type] = @ + 1]
    /\ calls' = calls + 1
    /\ lastOp' = [op |-> "gain", attacker |-> "none", endTurn |-> FALSE, endGame |-> FALSE,
                  extraBefore |-> 0, bombModeBefore |-> ctl.bombMode]
    /\ UNCHANGED <<ship, ai, ctl, timers, ach>>

NextInventory ==
    \/ HandleAutoPlace
    \/ HandleStartGame
    \/ CellClick
    \/ PowerUpUse
    \/ EndTurnClick
    \/ TimerExecuteAITurn
    \/ TimerEndOfAITurn
    \/ PlayerSpawnCall
    \/ AIGainCall

\* The game, with power-ups of every type.
SpecInventory == Init /\ [][NextInventory]_vars

\* The bombs of the player: those of the inventory, and the one taken out of
\* it on entering bomb mode.
bombsHeld(g, c) == g.powerUpInventory.player["bomb"] + (IF c.bombMode THEN 1 ELSE 0)

\* C40: no count of either inventory is ever negative, and a step that enters
\* bomb mode or cancels it, without dropping the bomb, leaves the player with
\* the bombs they had: entering takes one out of the inventory and cancelling
\* puts it back.
C40_CountsNeverNegative ==
    /\ [](\A owner \in Owners, type \in PowerUpTypeSet : gs.powerUpInventory[owner][type] >= 0)
    /\ [][(ctl'.bombMode # ctl.bombMode /\ lastOp'.attacker = "none")
             => /\ bombsHeld(gs', ctl') = bombsHeld(gs, ctl)
                /\ gs'.powerUpInventory.player["bomb"] =
                      gs.powerUpInventory.player["bomb"] + (IF ctl.bombMode THEN 1 ELSE -1)]_vars

\* C40 witness: the player has entered bomb mode with their only bomb and
\* cancelled it by a click on their own board, and holds the bomb again.
C40_Witness ==
    /\ lastOp.op = "cellClick"
    /\ lastOp.bombModeBefore
    /\ lastOp.attacker = "none"
    /\ ~ctl.bombMode
    /\ gs.powerUpInventory.player["bomb"] = 1

(* ------------------------------ SpecReset ----------------------------- *)
\* How many times the player resets the game in a behaviour.
MaxResets == 1

\* The New Game button of the game screen, which the controller listens to
\* itself whether or not the controls are enabled, with the dialog confirmed.
NewGameClick ==
    /\ calls < MaxResets
    /\ \E t \in handleNewGame(Current) : Commit(t, "newGame")
    /\ calls' = calls + 1
    /\ UNCHANGED ach

\* The End Game button of the game screen, likewise.
EndGameClick ==
    /\ calls < MaxResets
    /\ \E t \in handleEndGame(Current) : Commit(t, "endGame")
    /\ calls' = calls + 1
    /\ UNCHANGED ach

NextReset ==
    \/ HandleAutoPlace
    \/ HandleStartGame
    \/ CellClick
    \/ EndTurnClick
    \/ TimerExecuteAITurn
    \/ TimerEndOfAITurn
    \/ NewGameClick
    \/ EndGameClick

SpecReset == Init /\ [][NextReset]_vars

\* A board no attack has landed on.
untouched(board) ==
    \A p \in BoardPositions : board.cells[p].state \notin {"hit", "miss", "sunk"}

\* C30: pending timers are cleared on an explicit state reset: when a new
\* game or an end of game is started while an AI-turn callback is scheduled,
\* that callback never runs against the new state: no timer is pending once
\* the reset is done, and the step after it is not a callback's.
C30_ResetClearsTimers ==
    [][lastOp.op \in {"newGame", "endGame"} =>
          /\ timers = NoTimers
          /\ lastOp'.op \notin {"executeAITurn", "endOfAITurn"}]_vars

\* C30 witness: a reset has just been done during the AI's turn: the game is
\* in a fresh setup phase, nothing of the player's fleet is placed, and the
\* executeAITurn callback is still scheduled.
C30_Witness ==
    /\ lastOp.op \in {"newGame", "endGame"}
    /\ gs.phase = "setup"
    /\ ctl.placementModal
    /\ gs.playerBoard = boardWithShips("player")
    /\ untouched(gs.aiBoard)
    /\ timers.executeAITurn > 0

\* What the left-over callbacks lead to: the new player board, with no ship
\* placed on it, has been attacked, and the phase is the player's turn with
\* the placement modal still open.
staleTurnPlayed ==
    /\ calls > 0
    /\ lastOp.op = "endOfAITurn"
    /\ ctl.placementModal
    /\ gs.phase = "player-turn"
    /\ gs.playerBoard.ships = createShips("player")
    /\ ~untouched(gs.playerBoard)

(* --------------------------- claims on Spec --------------------------- *)
\* A fleet that has ships, all of them sunk.
fleetSunk(board) == Len(board.ships) > 0 /\ allSunk(board)

\* C1: victory is checked after every resolved attack: once an attack (normal
\* or bomb, by the player or by the AI) has been handled, if every ship of the
\* attacked side is sunk then the phase is game-over and the winner is the
\* attacker; the game is never in player-turn or ai-turn with a completely
\* sunk fleet.
C1_VictoryCheckedAfterAttack ==
    /\ (lastOp.attacker = "player" /\ fleetSunk(gs.aiBoard)) =>
          (gs.phase = "game-over" /\ gs.winner = "player")
    /\ (lastOp.attacker = "ai" /\ fleetSunk(gs.playerBoard)) =>
          (gs.phase = "game-over" /\ gs.winner = "ai")
    /\ gs.phase \in {"player-turn", "ai-turn"} =>
          (~fleetSunk(gs.playerBoard) /\ ~fleetSunk(gs.aiBoard))

\* C1 witness: the player's bomb has sunk the whole AI fleet and the handler
\* has returned with the phase still player-turn.
C1_Witness ==
    /\ lastOp.op = "cellClick" /\ lastOp.attacker = "player"
    /\ fleetSunk(gs.aiBoard)
    /\ gs.phase = "player-turn" /\ gs.winner = "null"

PhaseEdges ==
    {<<"setup", "player-turn">>, <<"player-turn", "ai-turn">>, <<"ai-turn", "player-turn">>,
     <<"player-turn", "game-over">>, <<"ai-turn", "game-over">>}

\* C2: the phase only moves along setup -> player-turn, player-turn -> ai-turn,
\* ai-turn -> player-turn and player-turn/ai-turn -> game-over, and game-over
\* is terminal: no end-turn request, cell click or timer callback changes the
\* phase once it is reached.
C2_PhaseMoves ==
    [][gs'.phase # gs.phase => <<gs.phase, gs'.phase>> \in PhaseEdges]_vars

\* C2 witness: an End Turn request made after the player has won has put the
\* phase to ai-turn.
C2_Witness ==
    /\ lastOp.op = "endTurn"
    /\ gs.winner = "player"
    /\ gs.phase = "ai-turn"

\* C3: an end-turn made in player-turn moves the phase to ai-turn only when the
\* extra-turn counter is 0; with a positive counter it decrements the counter
\* by one and the phase stays player-turn. At the end of an AI attack a
\* positive counter is decremented by one and the AI attacks again; the phase
\* returns to player-turn only when the counter is 0.
C3_ExtraTurnCounter ==
    [][/\ (lastOp'.endTurn /\ gs.phase = "player-turn") =>
            IF gs.extraTurn > 0
            THEN gs'.extraTurn = gs.extraTurn - 1 /\ gs'.phase = "player-turn"
            ELSE gs'.extraTurn = 0 /\ gs'.phase = "ai-turn"
       /\ lastOp'.op = "endOfAITurn" =>
            IF gs.extraTurn > 0
            THEN /\ gs'.extraTurn = gs.extraTurn - 1
                 /\ gs'.phase = gs.phase
                 /\ timers'.executeAITurn = timers.executeAITurn + 1
            ELSE /\ gs'.extraTurn = 0
                 /\ gs'.phase = "player-turn"
                 /\ timers'.executeAITurn = timers.executeAITurn]_vars

\* C3 witness: the player's attack has ended with an extra turn queued, which
\* was consumed, and it is still the player's turn.
C3_Witness ==
    /\ lastOp.op = "cellClick" /\ lastOp.endTurn
    /\ lastOp.extraBefore > 0
    /\ gs.extraTurn = lastOp.extraBefore - 1
    /\ gs.phase = "player-turn"

\* The cells of the AI's board that an attack has resolved.
resolvedCells == {p \in BoardPositions : gs.aiBoard.cells[p].state \in {"hit", "miss", "sunk"}}

\* A click on the AI's board is a normal attack: the player's turn, and no
\* repair, radar or bomb mode.
normalAttackMode ==
    /\ gs.phase = "player-turn"
    /\ ~ctl.repairMode /\ ~ctl.radarMode /\ ~ctl.bombMode

\* C14: a normal player attack on a cell of the AI's board that is already
\* hit, miss or sunk returns without a change: the game state (cells, ships,
\* inventories, phase, extra turns), the AI, the controller's flags and the
\* timers are what they were, no turn has ended, and nothing is thrown (the
\* handler has a result).
C14_ResolvedCellRejected ==
    \A p \in resolvedCells :
        /\ handlePlayerAttack(Current, p) = {Current}
        /\ normalAttackMode => handleCellClick(Current, p, "ai") = {Current}

\* C14 witness: the player's turn, controls enabled, no mode, and a cell the
\* player can click that is already hit or sunk, and another that is a miss.
C14_Witness ==
    /\ normalAttackMode
    /\ ctl.isEnabled
    /\ ctl.selectedPowerUp = "null"
    /\ \E p \in resolvedCells \cap AIBoardClicks : gs.aiBoard.cells[p].state \in {"hit", "sunk"}
    /\ \E p \in resolvedCells : gs.aiBoard.cells[p].state = "miss"
    /\ \A p \in resolvedCells : handleCellClick(Current, p, "ai") = {Current}

====
